---- MODULE Spec2Model ----
(***************************************************************************)
(* Identity Correlator of the SAML/OIDC -> SSI migration bridge            *)
(* (server/src/services/identity/correlator.js).                           *)
(*                                                                         *)
(* The Mapping Store (the MongoDB collection behind the IdentityMapping    *)
(* model) is a sequence of documents in natural (insertion) order; findOne *)
(* returns the first document that matches.  In the sequential             *)
(* specifications every Correlator operation is one atomic action that     *)
(* runs the whole method, nested calls included.  SpecConcurrent runs two  *)
(* calls side by side, each advancing one database call (one await) at a   *)
(* time.  SpecTranslate applies the Protocol Translator's extraction       *)
(* functions to payloads, and SpecBridge runs the Protocol Bridge's        *)
(* authentication flows over the collection.                               *)
(***************************************************************************)
EXTENDS Integers, Sequences, FiniteSets, TLC

VARIABLES
    store,   \* the IdentityMapping collection: Seq of mapping documents
    prev,    \* the collection as it was before the last operation
    last,    \* the last operation: its name, arguments and outcome
    nOps,    \* number of operations run so far
    calls,   \* the calls in flight: each one's method, position and locals
    versions, \* the version key (__v) of each stored document, by traditionalId
    registry, \* the shared DIDRegistry object: its table and its listing vector
    wallet   \* the WalletConnector: its configuration, the WalletConnection
             \* collection, its two caches and the timers it has set

vars == <<store, prev, last, nOps, calls, versions, registry, wallet>>

\* The registry the module initializer shares: an empty table, an empty
\* vector.
EmptyRegistry == [dids |-> <<>>, all_dids |-> <<>>]

\* The wallet connector after construction, with SSI_WALLET_API_KEY unset: no
\* connection stored, both caches empty, no timer set.
EmptyWallet ==
    [apiKey |-> FALSE, connections |-> <<>>, credentialOffers |-> <<>>,
     presentationRequests |-> <<>>, timers |-> {}]

(***************************************************************************)
(* Bounds and input universes                                              *)
(***************************************************************************)
\* Operations per run.
MaxOps == 3

Ids == {"u1", "u2"}
Dids == {"did:key:1", "did:key:2"}
NoDid == ""
NoId == ""
NoConnection == ""
ConnectionIds == {"conn-1"}

\* Emails are <<local part, domain>>; the placeholder email of addDid and
\* connectWallet is `${traditionalId}@example.com`.
NoEmail == <<>>
IdentityEmails == {<<"a", "b.com">>, <<"c", "d.com">>}

Phases == {"traditional", "preparation", "hybrid", "claiming", "full_ssi"}

\* A raw provider argument is a string, an array of strings, or absent.
Str(s) == [kind |-> "string", s |-> s]
Arr(a) == [kind |-> "array", a |-> a]
NoProvider == [kind |-> "none"]

ProviderNames == {"saml", "SAML", "protocol-bridge-saml", "keycloak-saml", "oidc"}

\* The characters of each provider name.
Chars(p) ==
    CASE p = "saml" -> <<"s", "a", "m", "l">>
      [] p = "SAML" -> <<"S", "A", "M", "L">>
      [] p = "protocol-bridge-saml" ->
            <<"p", "r", "o", "t", "o", "c", "o", "l", "-", "b", "r", "i", "d",
              "g", "e", "-", "s", "a", "m", "l">>
      [] p = "keycloak-saml" ->
            <<"k", "e", "y", "c", "l", "o", "a", "k", "-", "s", "a", "m", "l">>
      [] p = "oidc" -> <<"o", "i", "d", "c">>
      [] p = "email" -> <<"e", "m", "a", "i", "l">>
      [] p = "vc" -> <<"v", "c">>
      [] p = "jwt" -> <<"j", "w", "t">>
      [] p = "oauth" -> <<"o", "a", "u", "t", "h">>
      [] p = "keycloak" -> <<"k", "e", "y", "c", "l", "o", "a", "k">>
      [] p = "auth0" -> <<"a", "u", "t", "h", "0">>
      [] OTHER -> <<>>

(***************************************************************************)
(* Sequence helpers                                                        *)
(***************************************************************************)
Range(s) == {s[i] : i \in DOMAIN s}

Includes(s, x) == \E i \in DOMAIN s : s[i] = x

\* [...new Set(s)]: the first occurrence of each element, in order.
RECURSIVE Dedup(_)
Dedup(s) ==
    IF s = <<>> THEN <<>>
    ELSE LET front == Dedup(SubSeq(s, 1, Len(s) - 1))
             x == s[Len(s)]
         IN IF Includes(front, x) THEN front ELSE Append(front, x)

\* [...new Set([...a, ...b])]
\* The union that keeps only the providers being added.
UnionSeq_AddedOnly(a, b) == Dedup(b)

UnionSeq(a, b) == Dedup(a \o b)

\* Array.prototype.filter
RECURSIVE FilterOut(_, _)
FilterOut(s, drop) ==
    IF s = <<>> THEN <<>>
    ELSE LET rest == FilterOut(Tail(s), drop)
         IN IF Includes(drop, Head(s)) THEN rest ELSE <<Head(s)>> \o rest

\* String.prototype.includes on character sequences.
IsSubstring(needle, hay) ==
    \E i \in 0..(Len(hay) - Len(needle)) :
        \A j \in 1..Len(needle) : hay[i + j] = needle[j]

(***************************************************************************)
(* normalizeProvider and areProvidersRelated                               *)
(***************************************************************************)
normalizeProvider(provider) ==
    CASE provider.kind = "none" -> <<>>
      [] provider.kind = "string" -> IF provider.s = "" THEN <<>> ELSE <<provider.s>>
      [] provider.kind = "array" -> provider.a

ToLower(c) ==
    CASE c = "S" -> "s" [] c = "A" -> "a" [] c = "M" -> "m" [] c = "L" -> "l"
      [] OTHER -> c

IsAlnum(c) ==
    c \in {"a", "b", "c", "d", "e", "f", "g", "h", "i", "j", "k", "l", "m", "n",
           "o", "p", "q", "r", "s", "t", "u", "v", "w", "x", "y", "z",
           "0", "1", "2", "3", "4", "5", "6", "7", "8", "9"}

\* provider.toLowerCase().replace(/[^a-z0-9]/g, '')
RECURSIVE StripNonAlnum(_)
StripNonAlnum(cs) ==
    IF cs = <<>> THEN <<>>
    ELSE LET c == ToLower(Head(cs))
         IN IF IsAlnum(c) THEN <<c>> \o StripNonAlnum(Tail(cs))
            ELSE StripNonAlnum(Tail(cs))

normalizeForComparison(provider) == StripNonAlnum(Chars(provider))

commonTypes == <<"saml", "oidc", "oauth", "jwt", "keycloak", "auth0">>

\* The relatedness test without the common-family clause.
RelatedPair_NoCommonType(requested, existing) ==
    LET nr == normalizeForComparison(requested)
        ne == normalizeForComparison(existing)
    IN \/ nr = ne
       \/ IsSubstring(ne, nr)
       \/ IsSubstring(nr, ne)

RelatedPair(requested, existing) ==
    LET nr == normalizeForComparison(requested)
        ne == normalizeForComparison(existing)
    IN \/ nr = ne
       \/ IsSubstring(ne, nr)
       \/ IsSubstring(nr, ne)
       \/ \E t \in DOMAIN commonTypes :
             /\ IsSubstring(Chars(commonTypes[t]), nr)
             /\ IsSubstring(Chars(commonTypes[t]), ne)

areProvidersRelated(requestedProvider, existingProviders) ==
    IF requestedProvider = "" \/ Len(existingProviders) = 0 THEN FALSE
    ELSE \E i \in DOMAIN existingProviders :
            RelatedPair(requestedProvider, existingProviders[i])

(***************************************************************************)
(* The IdentityMapping model: documents and collection primitives          *)
(***************************************************************************)
\* null, as returned by findOne when nothing matches.
NoMapping == [null |-> TRUE]

HasKey(obj, key) == key \in DOMAIN obj

\* new IdentityMapping(data): the schema's fields with its defaults.
IdentityMapping(data) ==
    [traditionalId |-> data.traditionalId,
     provider |-> IF HasKey(data, "provider") THEN data.provider ELSE <<>>,
     email |-> IF HasKey(data, "email") THEN data.email ELSE NoEmail,
     did |-> IF HasKey(data, "did") THEN data.did ELSE NoDid,
     didMethod |-> IF HasKey(data, "didMethod") THEN data.didMethod ELSE "",
     walletConnected |->
         IF HasKey(data, "walletConnected") THEN data.walletConnected ELSE FALSE,
     walletConnectionId |->
         IF HasKey(data, "walletConnectionId") THEN data.walletConnectionId
         ELSE NoConnection,
     migrationPhase |->
         IF HasKey(data, "migrationPhase") THEN data.migrationPhase
         ELSE "traditional"]

\* Index of the first document with this traditionalId, 0 when there is none.
IdxByTraditionalId(s, traditionalId) ==
    LET hits == {i \in DOMAIN s : s[i].traditionalId = traditionalId}
    IN IF hits = {} THEN 0 ELSE CHOOSE i \in hits : \A j \in hits : i <= j

\* findOne({ traditionalId, provider: { $in: providers } })
IdxByTraditionalIdAndProvider(s, traditionalId, providers) ==
    LET hits == {i \in DOMAIN s :
                    /\ s[i].traditionalId = traditionalId
                    /\ \E k \in DOMAIN providers : Includes(s[i].provider, providers[k])}
    IN IF hits = {} THEN 0 ELSE CHOOSE i \in hits : \A j \in hits : i <= j

\* findOne({ did })
IdxByDid(s, did) ==
    LET hits == {i \in DOMAIN s : s[i].did = did}
    IN IF hits = {} THEN 0 ELSE CHOOSE i \in hits : \A j \in hits : i <= j

\* findOne({ email })
IdxByEmail(s, email) ==
    LET hits == {i \in DOMAIN s : s[i].email = email}
    IN IF hits = {} THEN 0 ELSE CHOOSE i \in hits : \A j \in hits : i <= j

\* document.save(): an existing document is written back in place, a new one
\* is inserted at the end.
Save(s, doc) ==
    LET i == IdxByTraditionalId(s, doc.traditionalId)
    IN IF i = 0 THEN Append(s, doc) ELSE [s EXCEPT ![i] = doc]

\* deleteOne({ traditionalId })
DeleteOne(s, traditionalId) ==
    LET i == IdxByTraditionalId(s, traditionalId)
    IN IF i = 0 THEN s ELSE SubSeq(s, 1, i - 1) \o SubSeq(s, i + 1, Len(s))

\* const x = value; body: the value is computed once and then named.
Bind(value, Body(_)) == CHOOSE result \in {Body(x) : x \in {value}} : TRUE

\* The outcome of a method: the collection afterwards, the value returned
\* (a mapping, null, or a boolean) and the error thrown ("" when none).
Ok(s, ret) == [store |-> s, ret |-> ret, err |-> ""]
Throw(s, err) == [store |-> s, ret |-> NoMapping, err |-> err]

\* The phase rule that starts every mapping in preparation.
InitialPhase_AlwaysPreparation(data) == "preparation"

\* The phase rule of createMapping.
InitialPhase(data) ==
    IF HasKey(data, "did") /\ data.did # NoDid
       /\ HasKey(data, "walletConnected") /\ data.walletConnected
    THEN "hybrid"
    ELSE IF HasKey(data, "did") /\ data.did # NoDid THEN "preparation"
    ELSE "traditional"

(***************************************************************************)
(* IdentityCorrelator methods                                              *)
(***************************************************************************)
findByTraditionalId(s, traditionalId, provider) ==
    LET normalizedProvider == normalizeProvider(provider)
        exact == IF Len(normalizedProvider) > 0
                 THEN IdxByTraditionalIdAndProvider(s, traditionalId, normalizedProvider)
                 ELSE 0
        idOnly == IdxByTraditionalId(s, traditionalId)
    IN IF exact # 0 THEN Ok(s, s[exact])
       ELSE IF idOnly = 0 THEN Ok(s, NoMapping)
       ELSE IF /\ Len(normalizedProvider) = 1
               /\ ~areProvidersRelated(normalizedProvider[1], s[idOnly].provider)
            THEN LET doc == [s[idOnly] EXCEPT
                               !.provider = Append(@, normalizedProvider[1])]
                 IN Ok(Save(s, doc), doc)
            ELSE Ok(s, s[idOnly])

findByDid(s, did) ==
    LET i == IdxByDid(s, did) IN IF i = 0 THEN NoMapping ELSE s[i]

findByEmail(s, email) ==
    LET i == IdxByEmail(s, email) IN IF i = 0 THEN NoMapping ELSE s[i]

\* createMapping that overwrites the stored providers with the requested ones.
createMapping_OverwriteProviders(s, mappingData) ==
    LET providers == normalizeProvider(mappingData.provider)
        i == IdxByTraditionalId(s, mappingData.traditionalId)
    IN IF i # 0
       THEN IF \E k \in DOMAIN providers : ~Includes(s[i].provider, providers[k])
            THEN LET doc == [s[i] EXCEPT !.provider = providers]
                 IN Ok(Save(s, doc), doc)
            ELSE Ok(s, s[i])
       ELSE LET doc == [IdentityMapping(mappingData) EXCEPT
                           !.provider = providers,
                           !.migrationPhase = InitialPhase(mappingData)]
            IN Ok(Save(s, doc), doc)

createMapping(s, mappingData) ==
    LET providers == normalizeProvider(mappingData.provider)
        i == IdxByTraditionalId(s, mappingData.traditionalId)
    IN IF i # 0
       THEN IF \E k \in DOMAIN providers : ~Includes(s[i].provider, providers[k])
            THEN LET doc == [s[i] EXCEPT !.provider = UnionSeq(@, providers)]
                 IN Ok(Save(s, doc), doc)
            ELSE Ok(s, s[i])
       ELSE IF \/ mappingData.traditionalId = NoId
               \/ ~HasKey(mappingData, "email") \/ mappingData.email = NoEmail
            THEN Throw(s, "ValidationError")
       ELSE LET doc == [IdentityMapping(mappingData) EXCEPT
                           !.provider = providers,
                           !.migrationPhase = InitialPhase(mappingData)]
            IN Ok(Save(s, doc), doc)

\* The keys updateMapping copies from the patch onto the document.
\* The field copy without the test for the traditionalId key.
PatchedField_CopiesTraditionalId(mapping, updateData, key) ==
    IF HasKey(updateData, key) /\ key # "provider" /\ key # "_id"
    THEN updateData[key]
    ELSE mapping[key]

PatchedField(mapping, updateData, key) ==
    IF HasKey(updateData, key)
       /\ key # "traditionalId" /\ key # "provider" /\ key # "_id"
    THEN updateData[key]
    ELSE mapping[key]

DerivePhase(mapping) ==
    IF mapping.did # NoDid /\ mapping.walletConnected THEN "hybrid"
    ELSE IF mapping.did # NoDid THEN "preparation"
    ELSE mapping.migrationPhase

updateMapping(s, traditionalId, provider, updateData) ==
    LET normalizedProvider == normalizeProvider(provider)
        found == findByTraditionalId(s, traditionalId, Arr(normalizedProvider))
        mapping == found.ret
    IN IF mapping = NoMapping THEN Throw(found.store, "NotFound")
       ELSE LET patched ==
                    [key \in DOMAIN mapping |->
                        PatchedField(mapping, updateData, key)]
                merged ==
                    IF HasKey(updateData, "provider")
                       /\ normalizeProvider(updateData.provider) # <<>>
                    THEN [patched EXCEPT
                            !.provider =
                                UnionSeq(@, normalizeProvider(updateData.provider))]
                    ELSE patched
                doc == [merged EXCEPT !.migrationPhase = DerivePhase(merged)]
            IN Ok(Save(found.store, doc), doc)

PlaceholderEmail(traditionalId) == <<traditionalId, "example.com">>

\* addDid that looks the mapping up (and creates it) before the DID check.
addDid_LookupBeforeDidCheck(s, traditionalId, provider, did, didMethod) ==
    LET found == findByTraditionalId(s, traditionalId, provider)
        made == IF found.ret = NoMapping
                THEN createMapping(found.store,
                         [traditionalId |-> traditionalId,
                          provider |-> Arr(normalizeProvider(provider)),
                          email |-> PlaceholderEmail(traditionalId),
                          migrationPhase |-> "traditional"])
                ELSE found
    IN IF findByDid(s, did) # NoMapping THEN Throw(made.store, "Conflict")
       ELSE LET doc == [made.ret EXCEPT
                          !.did = did,
                          !.didMethod = didMethod,
                          !.migrationPhase = "preparation"]
            IN Ok(Save(made.store, doc), doc)

addDid(s, traditionalId, provider, did, didMethod) ==
    IF findByDid(s, did) # NoMapping THEN Throw(s, "Conflict")
    ELSE LET found == findByTraditionalId(s, traditionalId, provider)
             made == IF found.ret = NoMapping
                     THEN createMapping(found.store,
                              [traditionalId |-> traditionalId,
                               provider |-> Arr(normalizeProvider(provider)),
                               email |-> PlaceholderEmail(traditionalId),
                               migrationPhase |-> "traditional"])
                     ELSE found
         IN IF made.err # "" THEN made
            ELSE LET doc == [made.ret EXCEPT
                               !.did = did,
                               !.didMethod = didMethod,
                               !.migrationPhase = "preparation"]
                 IN Ok(Save(made.store, doc), doc)

connectWallet(s, traditionalId, provider, connectionId) ==
    LET found == findByTraditionalId(s, traditionalId, provider)
        made == IF found.ret = NoMapping
                THEN createMapping(found.store,
                         [traditionalId |-> traditionalId,
                          provider |-> Arr(normalizeProvider(provider)),
                          email |-> PlaceholderEmail(traditionalId),
                          migrationPhase |-> "traditional"])
                ELSE found
    IN IF made.err # "" THEN made
       ELSE LET connected == [made.ret EXCEPT
                                !.walletConnected = TRUE,
                                !.walletConnectionId = connectionId]
                doc == IF connected.did # NoDid
                       THEN [connected EXCEPT !.migrationPhase = "hybrid"]
                       ELSE connected
            IN Ok(Save(made.store, doc), doc)

\* uuidv4(): a value no stored email was built from.
UuidLocals == <<"unknown-1", "unknown-2", "unknown-3", "unknown-4", "unknown-5">>

FreshUnknownEmail(s) ==
    LET free == {k \in DOMAIN UuidLocals :
                    \A i \in DOMAIN s : s[i].email # <<UuidLocals[k], "example.com">>}
        k == CHOOSE x \in free : \A y \in free : x <= y
    IN <<UuidLocals[k], "example.com">>

\* findOrCreateMapping without the lookup by email.
findOrCreateMapping_NoEmailLookup(s, userData, provider) ==
    LET normalizedProvider == normalizeProvider(provider)
        found == findByTraditionalId(s, userData.id, Arr(normalizedProvider))
        mapping == found.ret
    IN IF mapping = NoMapping
       THEN createMapping(found.store,
                [traditionalId |-> userData.id,
                 provider |-> Arr(normalizedProvider),
                 email |-> IF userData.email # NoEmail THEN userData.email
                           ELSE FreshUnknownEmail(found.store)])
       ELSE LET merged == [mapping EXCEPT
                             !.provider = UnionSeq(@, normalizedProvider)]
                doc == IF userData.email # NoEmail /\ userData.email # merged.email
                       THEN [merged EXCEPT !.email = userData.email]
                       ELSE merged
            IN Ok(Save(found.store, doc), doc)

\* findOrCreateMapping that overwrites the stored email even when the identity
\* carries none.
findOrCreateMapping_EmailUnguarded(s, userData, provider) ==
    LET normalizedProvider == normalizeProvider(provider)
        found == findByTraditionalId(s, userData.id, Arr(normalizedProvider))
        mapping == found.ret
    IN IF mapping = NoMapping
       THEN LET byEmail == IF userData.email # NoEmail
                           THEN findByEmail(found.store, userData.email)
                           ELSE NoMapping
            IN IF byEmail # NoMapping
               THEN LET doc == [byEmail EXCEPT
                                  !.provider = UnionSeq(@, normalizedProvider)]
                    IN Ok(Save(found.store, doc), doc)
               ELSE createMapping(found.store,
                        [traditionalId |-> userData.id,
                         provider |-> Arr(normalizedProvider),
                         email |-> IF userData.email # NoEmail THEN userData.email
                                   ELSE FreshUnknownEmail(found.store)])
       ELSE LET merged ==
                    IF \E k \in DOMAIN normalizedProvider :
                          ~Includes(mapping.provider, normalizedProvider[k])
                    THEN [mapping EXCEPT
                            !.provider = UnionSeq(@, normalizedProvider)]
                    ELSE mapping
                doc == IF userData.email # merged.email
                       THEN [merged EXCEPT !.email = userData.email]
                       ELSE merged
            IN Ok(Save(found.store, doc), doc)

findOrCreateMapping(s, userData, provider) ==
    LET normalizedProvider == normalizeProvider(provider)
        found == findByTraditionalId(s, userData.id, Arr(normalizedProvider))
        mapping == found.ret
    IN IF mapping = NoMapping
       THEN LET byEmail == IF userData.email # NoEmail
                           THEN findByEmail(found.store, userData.email)
                           ELSE NoMapping
            IN IF byEmail # NoMapping
               THEN LET doc == [byEmail EXCEPT
                                  !.provider = UnionSeq(@, normalizedProvider)]
                    IN Ok(Save(found.store, doc), doc)
               ELSE createMapping(found.store,
                        [traditionalId |-> userData.id,
                         provider |-> Arr(normalizedProvider),
                         email |-> IF userData.email # NoEmail THEN userData.email
                                   ELSE FreshUnknownEmail(found.store)])
       ELSE LET merged ==
                    IF \E k \in DOMAIN normalizedProvider :
                          ~Includes(mapping.provider, normalizedProvider[k])
                    THEN [mapping EXCEPT
                            !.provider = UnionSeq(@, normalizedProvider)]
                    ELSE mapping
                doc == IF userData.email # NoEmail /\ userData.email # merged.email
                       THEN [merged EXCEPT !.email = userData.email]
                       ELSE merged
            IN Ok(Save(found.store, doc), doc)

updateMigrationPhase(s, traditionalId, provider, phase) ==
    updateMapping(s, traditionalId, provider, [migrationPhase |-> phase])

deleteMapping(s, traditionalId, provider) ==
    LET normalizedProvider == normalizeProvider(provider)
    IN IF Len(normalizedProvider) > 0
       THEN LET found == findByTraditionalId(s, traditionalId, Arr(normalizedProvider))
                mapping == found.ret
            IN IF mapping = NoMapping THEN Ok(found.store, FALSE)
               ELSE IF /\ Len(mapping.provider) <= Len(normalizedProvider)
                       /\ \A k \in DOMAIN normalizedProvider :
                             Includes(mapping.provider, normalizedProvider[k])
                    THEN Ok(DeleteOne(found.store, traditionalId), TRUE)
                    ELSE Ok(Save(found.store,
                                 [mapping EXCEPT
                                    !.provider = FilterOut(@, normalizedProvider)]),
                            TRUE)
       ELSE Ok(DeleteOne(s, traditionalId), IdxByTraditionalId(s, traditionalId) # 0)

(***************************************************************************)
(* Inputs of the operations                                                *)
(***************************************************************************)
\* Provider arguments of the lookups: every single name, a list, none.
LookupProviders ==
    {Str(p) : p \in ProviderNames} \cup {Arr(<<"saml", "oidc">>), NoProvider}

\* Provider arguments of the authenticated routes (req.user.auth_provider).
RouteProviders == {Str("saml"), Str("oidc")}

\* Bodies of POST /api/identity/mapping/create.
CreateInputs ==
    {[traditionalId |-> id, provider |-> pr, email |-> e] :
        id \in Ids,
        pr \in {Str("protocol-bridge-saml"), Str("oidc"), Arr(<<"saml", "oidc">>)},
        e \in IdentityEmails}
    \cup
    {[traditionalId |-> id, provider |-> Str("saml"), email |-> <<"a", "b.com">>,
      did |-> "did:key:1", didMethod |-> "key", walletConnected |-> w] :
        id \in Ids, w \in BOOLEAN}

\* Normalized identities handed to findOrCreateMapping.
Identities ==
    {[id |-> id, email |-> e] : id \in Ids, e \in IdentityEmails \cup {NoEmail}}

\* Patches of PUT /api/identity/mapping/:id that leave migrationPhase alone.
Patches ==
    {[did |-> d] : d \in Dids \cup {NoDid}}
    \cup {[walletConnected |-> w] : w \in BOOLEAN}
    \cup {[email |-> e] : e \in IdentityEmails}
    \cup {[traditionalId |-> "u2", provider |-> Str("oidc")],
          [_id |-> "id-2", traditionalId |-> "u2"]}

(***************************************************************************)
(* State machine                                                           *)
(***************************************************************************)
Init ==
    /\ store = <<>>
    /\ prev = <<>>
    /\ last = [op |-> "none", args |-> <<>>, ret |-> NoMapping, err |-> ""]
    /\ nOps = 0
    /\ calls = <<>>
    /\ versions = <<>>
    /\ registry = EmptyRegistry
    /\ wallet = EmptyWallet

\* One operation: the collection moves to the method's outcome.
Run(op, args, outcome) ==
    /\ nOps < MaxOps
    /\ store' = outcome.store
    /\ prev' = store
    /\ last' = [op |-> op, args |-> args, ret |-> outcome.ret, err |-> outcome.err]
    /\ nOps' = nOps + 1
    /\ UNCHANGED <<calls, versions, registry, wallet>>

FindByTraditionalId ==
    \E id \in Ids, pr \in LookupProviders :
        Run("findByTraditionalId", [id |-> id, provider |-> pr],
            findByTraditionalId(store, id, pr))

CreateMapping ==
    \E data \in CreateInputs :
        Run("createMapping", data, createMapping(store, data))

UpdateMapping ==
    \E id \in Ids, patch \in Patches :
        Run("updateMapping", [id |-> id, provider |-> Str("saml"), patch |-> patch],
            updateMapping(store, id, Str("saml"), patch))

AddDid ==
    \E id \in Ids, pr \in RouteProviders, did \in Dids :
        Run("addDid", [id |-> id, provider |-> pr, did |-> did],
            addDid(store, id, pr, did, "key"))

ConnectWallet ==
    \E id \in Ids, pr \in RouteProviders, c \in ConnectionIds :
        Run("connectWallet", [id |-> id, provider |-> pr, connectionId |-> c],
            connectWallet(store, id, pr, c))

FindOrCreateMapping ==
    \E userData \in Identities, pr \in RouteProviders :
        Run("findOrCreateMapping", [userData |-> userData, provider |-> pr],
            findOrCreateMapping(store, userData, pr))

UpdateMigrationPhase ==
    \E id \in Ids, phase \in Phases :
        Run("updateMigrationPhase",
            [id |-> id, provider |-> Str("saml"), phase |-> phase],
            updateMigrationPhase(store, id, Str("saml"), phase))

DeleteMapping ==
    \E id \in Ids, pr \in {Str("saml"), Arr(<<"saml", "oidc">>), NoProvider} :
        Run("deleteMapping", [id |-> id, provider |-> pr],
            deleteMapping(store, id, pr))

\* Every Correlator operation.
Next ==
    \/ FindByTraditionalId
    \/ CreateMapping
    \/ UpdateMapping
    \/ AddDid
    \/ ConnectWallet
    \/ FindOrCreateMapping
    \/ UpdateMigrationPhase
    \/ DeleteMapping

Spec == Init /\ [][Next]_vars

\* The normal flow alone: addDid and connectWallet.
NextFlow == AddDid \/ ConnectWallet

SpecFlow == Init /\ [][NextFlow]_vars

\* The operations that derive the phase, without an explicit phase override
\* and without deletion.
NextDerived ==
    \/ CreateMapping
    \/ FindOrCreateMapping
    \/ AddDid
    \/ ConnectWallet
    \/ UpdateMapping

SpecDerived == Init /\ [][NextDerived]_vars

\* Logins alone: findOrCreateMapping.
NextLogin == FindOrCreateMapping

SpecLogin == Init /\ [][NextLogin]_vars

(***************************************************************************)
(* Properties                                                              *)
(***************************************************************************)
PhaseRank(phase) ==
    CASE phase = "traditional" -> 0
      [] phase = "preparation" -> 1
      [] phase = "hybrid" -> 2
      [] phase = "claiming" -> 3
      [] phase = "full_ssi" -> 4

\* The stored mapping of a traditionalId, NoMapping when there is none.
MappingOf(s, traditionalId) ==
    LET i == IdxByTraditionalId(s, traditionalId)
    IN IF i = 0 THEN NoMapping ELSE s[i]

Exists(s, traditionalId) == IdxByTraditionalId(s, traditionalId) # 0

\* C1: under addDid and connectWallet alone, no mapping's migrationPhase moves
\* to an earlier phase of traditional < preparation < hybrid < claiming <
\* full_ssi; addDid on a mapping without a DID gives preparation and
\* connectWallet on a mapping in preparation gives hybrid.
C1_PhaseNeverRegresses ==
    /\ \A i \in DOMAIN prev :
          Exists(store, prev[i].traditionalId) =>
              PhaseRank(MappingOf(store, prev[i].traditionalId).migrationPhase)
                  >= PhaseRank(prev[i].migrationPhase)
    /\ (/\ last.op = "addDid" /\ last.err = ""
        /\ (Exists(prev, last.args.id) =>
               MappingOf(prev, last.args.id).migrationPhase = "traditional"))
          => last.ret.migrationPhase = "preparation"
    /\ (/\ last.op = "connectWallet" /\ last.err = ""
        /\ Exists(prev, last.args.id)
        /\ MappingOf(prev, last.args.id).migrationPhase = "preparation")
          => last.ret.migrationPhase = "hybrid"

\* C2: every stored mapping obeys the phase rule: no DID gives traditional,
\* a DID without a wallet gives preparation, a DID with a wallet gives hybrid.
C2_PhaseIsFunctionOfDidAndWallet ==
    \A i \in DOMAIN store :
        /\ store[i].did = NoDid => store[i].migrationPhase = "traditional"
        /\ (store[i].did # NoDid /\ ~store[i].walletConnected)
              => store[i].migrationPhase = "preparation"
        /\ (store[i].did # NoDid /\ store[i].walletConnected)
              => store[i].migrationPhase = "hybrid"

\* C3: no two distinct stored mappings have the same non-empty did.
C3_DidUnique ==
    \A i, j \in DOMAIN store :
        (i # j /\ store[i].did # NoDid) => store[i].did # store[j].did

\* The did of the last addDid is owned, before the call, by a mapping of
\* another traditionalId.
DidOwnedByOther ==
    /\ last.op = "addDid"
    /\ \E i \in DOMAIN prev :
          /\ prev[i].did = last.args.did
          /\ prev[i].traditionalId # last.args.id

\* C4: addDid of a DID that another mapping owns fails with a conflict and
\* leaves the collection as it was.
C4_DuplicateDidRejectedWithoutEffect ==
    DidOwnedByOther => (last.err = "Conflict" /\ store = prev)

C4_Witness ==
    /\ DidOwnedByOther
    /\ last.err = "Conflict"
    /\ ~Exists(prev, last.args.id)
    /\ ~Exists(store, last.args.id)

\* C5: addDid repeated with the id and did of a mapping that already has that
\* did succeeds and changes nothing; a conflict is raised only when the DID
\* is owned by a mapping of another traditionalId.
C5_AddDidRetrySafe ==
    /\ (/\ last.op = "addDid"
        /\ Exists(prev, last.args.id)
        /\ MappingOf(prev, last.args.id).did = last.args.did)
          => (last.err = "" /\ store = prev)
    /\ (last.op = "addDid" /\ last.err = "Conflict") => DidOwnedByOther

\* C6: after a successful updateMigrationPhase to claiming or full_ssi the
\* stored and the returned mapping have that phase.
C6_ExplicitPhaseOverrideSticks ==
    (/\ last.op = "updateMigrationPhase"
     /\ last.err = ""
     /\ last.args.phase \in {"claiming", "full_ssi"})
        => /\ last.ret.migrationPhase = last.args.phase
           /\ MappingOf(store, last.args.id).migrationPhase = last.args.phase

\* The stored mappings with this traditionalId.
CountOf(s, traditionalId) ==
    Cardinality({i \in DOMAIN s : s[i].traditionalId = traditionalId})

\* Every mapping of another traditionalId is as it was before the last operation.
OthersUnchanged(traditionalId) ==
    \A id \in Ids \ {traditionalId} : MappingOf(store, id) = MappingOf(prev, id)

\* C7: createMapping for a traditionalId that is already stored keeps exactly
\* one mapping for it, whose provider set is the union of the stored and the
\* requested providers, and changes nothing when every requested provider is
\* already stored; for a new traditionalId it stores exactly one mapping with
\* the requested providers.
C7_CreateMappingIdempotentUnion ==
    (last.op = "createMapping" /\ last.err = "") =>
        LET id == last.args.traditionalId
            requested == Range(normalizeProvider(last.args.provider))
        IN /\ CountOf(store, id) = 1
           /\ OthersUnchanged(id)
           /\ last.ret = MappingOf(store, id)
           /\ IF Exists(prev, id)
              THEN LET old == MappingOf(prev, id)
                   IN /\ Len(store) = Len(prev)
                      /\ Range(MappingOf(store, id).provider)
                            = Range(old.provider) \cup requested
                      /\ [MappingOf(store, id) EXCEPT !.provider = old.provider] = old
                      /\ requested \subseteq Range(old.provider) => store = prev
              ELSE /\ Len(store) = Len(prev) + 1
                   /\ Range(MappingOf(store, id).provider) = requested

C7_Witness ==
    /\ last.op = "createMapping"
    /\ last.err = ""
    /\ Exists(prev, last.args.traditionalId)
    /\ Range(normalizeProvider(last.args.provider))
          \cap Range(MappingOf(prev, last.args.traditionalId).provider) = {}
    /\ Range(MappingOf(store, last.args.traditionalId).provider)
          = Range(MappingOf(prev, last.args.traditionalId).provider)
               \cup Range(normalizeProvider(last.args.provider))

\* The provider names that are related by the rule of findByTraditionalId:
\* "saml" and "SAML" are equal after normalisation, "saml" is contained in
\* "protocol-bridge-saml" and in "keycloak-saml", which both contain the
\* family name saml; "oidc" is related to none of them.
SamlFamily == {"saml", "SAML", "protocol-bridge-saml", "keycloak-saml"}

RelatedNames(p, q) == (p \in SamlFamily /\ q \in SamlFamily) \/ p = q

\* C8: findByTraditionalId with one provider p returns the mapping of the
\* traditionalId whenever one is stored and null only when none is; when p is
\* related to a stored provider the provider list is left as it was, otherwise
\* p is appended to it; nothing else changes.
C8_FindByTraditionalIdRelatedness ==
    (last.op = "findByTraditionalId" /\ last.args.provider.kind = "string") =>
        LET id == last.args.id
            p == last.args.provider.s
        IN /\ last.err = ""
           /\ OthersUnchanged(id)
           /\ Len(store) = Len(prev)
           /\ IF ~Exists(prev, id) THEN last.ret = NoMapping /\ store = prev
              ELSE LET old == MappingOf(prev, id)
                   IN /\ last.ret = MappingOf(store, id)
                      /\ last.ret # NoMapping
                      /\ IF \E k \in DOMAIN old.provider : RelatedNames(p, old.provider[k])
                         THEN store = prev
                         ELSE MappingOf(store, id)
                                 = [old EXCEPT !.provider = Append(@, p)]

C8_Witness ==
    /\ last.op = "findByTraditionalId"
    /\ last.args.provider = Str("oidc")
    /\ Exists(prev, last.args.id)
    /\ MappingOf(prev, last.args.id).provider = <<"protocol-bridge-saml">>
    /\ last.ret.provider = <<"protocol-bridge-saml", "oidc">>
    /\ MappingOf(store, last.args.id) = last.ret

\* C9: findOrCreateMapping adds a mapping only when no stored mapping has the
\* identity's id as traditionalId and none has its email; otherwise the number
\* of mappings is unchanged and it returns a mapping that was stored (the one
\* with that traditionalId, else one with that email) with the requested
\* providers added.
C9_FindOrCreateCreatesOnlyWhenUnknown ==
    (last.op = "findOrCreateMapping" /\ last.err = "") =>
        LET userData == last.args.userData
            requested == Range(normalizeProvider(last.args.provider))
            byId == Exists(prev, userData.id)
            byEmail == \E i \in DOMAIN prev : prev[i].email = userData.email
            candidates ==
                IF byId THEN {MappingOf(prev, userData.id)}
                ELSE {prev[i] : i \in {j \in DOMAIN prev : prev[j].email = userData.email}}
        IN /\ Len(store) > Len(prev) => (~byId /\ ~byEmail)
           /\ (byId \/ byEmail) =>
                 /\ Len(store) = Len(prev)
                 /\ last.ret = MappingOf(store, last.ret.traditionalId)
                 /\ \E old \in candidates :
                       /\ last.ret.traditionalId = old.traditionalId
                       /\ Range(last.ret.provider) = Range(old.provider) \cup requested

C9_Witness ==
    /\ last.op = "findOrCreateMapping"
    /\ last.err = ""
    /\ ~Exists(prev, last.args.userData.id)
    /\ \E i \in DOMAIN prev :
          /\ prev[i].email = last.args.userData.email
          /\ last.ret.traditionalId = prev[i].traditionalId
          /\ ~Includes(prev[i].provider, "oidc")
          /\ Includes(last.ret.provider, "oidc")
    /\ Len(store) = Len(prev)

\* C10: no two distinct stored mappings have the same email.
C10_EmailUnique ==
    \A i, j \in DOMAIN store : i # j => store[i].email # store[j].email

(***************************************************************************)
(* Concurrent calls                                                        *)
(*                                                                         *)
(* A call in flight advances one database call at a time: every await of   *)
(* a findOne or a save is a point where another call may run.  A call      *)
(* keeps the document it loaded (doc), the document as it was loaded or    *)
(* last saved (snap) and the version key it carries (v).  save() of a      *)
(* loaded document writes only the paths the call changed; assigning a     *)
(* whole array makes the save conditional on the stored version key        *)
(* (VersionError when another save moved it), while a push is sent as an   *)
(* atomic $push.                                                           *)
(***************************************************************************)
CallIds == {1, 2}

NoCallArgs ==
    [traditionalId |-> "", provider |-> NoProvider, email |-> NoEmail,
     did |-> NoDid, connectionId |-> NoConnection]

\* The first database call of each method.
FirstPc(op, args) ==
    CASE op = "createMapping" -> "createMapping.findOne"
      [] op = "addDid" -> "findByDid"
      [] OTHER -> IF Len(normalizeProvider(args.provider)) > 0
                  THEN "findExact" ELSE "findIdOnly"

NewCall(op, args) ==
    [op |-> op, args |-> args, pc |-> FirstPc(op, args),
     data |-> IF op = "createMapping"
              THEN [traditionalId |-> args.traditionalId,
                    provider |-> args.provider, email |-> args.email]
              ELSE NoMapping,
     doc |-> NoMapping, snap |-> NoMapping, v |-> 0,
     push |-> "", inserted |-> FALSE, ret |-> NoMapping, err |-> ""]

\* A document read by findOne.
Load(c, s, vs, i) ==
    [c EXCEPT !.doc = s[i], !.snap = s[i], !.v = vs[s[i].traditionalId]]

Done(c) == [c EXCEPT !.pc = "done", !.ret = c.doc]
Fail(c, err) == [c EXCEPT !.pc = "done", !.err = err]

Step(c, s, vs) == [call |-> c, store |-> s, versions |-> vs]

\* mapping.save() of a new document under the unique index on traditionalId.
InsertDoc_NoUniqueIndex(s, doc) ==
    [store |-> Append(s, doc), err |-> ""]

InsertDoc(s, doc) ==
    IF IdxByTraditionalId(s, doc.traditionalId) # 0
    THEN [store |-> s, err |-> "DuplicateKey"]
    ELSE [store |-> Append(s, doc), err |-> ""]

\* mapping.save() of a loaded document.
SaveDoc(c, s, vs) ==
    LET id == c.doc.traditionalId
        i == IdxByTraditionalId(s, id)
        arraySet == c.doc.provider # c.snap.provider
        written == [f \in DOMAIN s[i] |->
                       IF c.doc[f] # c.snap[f] THEN c.doc[f] ELSE s[i][f]]
    IN IF i = 0 THEN Step(Fail(c, "DocumentNotFoundError"), s, vs)
       ELSE IF arraySet /\ vs[id] # c.v THEN Step(Fail(c, "VersionError"), s, vs)
       ELSE IF arraySet
            THEN Step([c EXCEPT !.snap = c.doc, !.v = c.v + 1],
                      [s EXCEPT ![i] = written], [vs EXCEPT ![id] = @ + 1])
            ELSE Step([c EXCEPT !.snap = c.doc], [s EXCEPT ![i] = written], vs)

\* idOnlyMatch.provider.push(requestedProvider); idOnlyMatch.save()
PushDoc(c, s, vs) ==
    LET id == c.doc.traditionalId
        i == IdxByTraditionalId(s, id)
    IN IF i = 0 THEN Step(Fail(c, "DocumentNotFoundError"), s, vs)
       ELSE Step([c EXCEPT !.v = c.v + 1],
                 [s EXCEPT ![i].provider = Append(@, c.push)],
                 [vs EXCEPT ![id] = @ + 1])

\* The mappingData a method hands to createMapping.
PlaceholderData(c) ==
    [traditionalId |-> c.args.traditionalId,
     provider |-> Arr(normalizeProvider(c.args.provider)),
     email |-> PlaceholderEmail(c.args.traditionalId),
     migrationPhase |-> "traditional"]

LoginData(c, s) ==
    [traditionalId |-> c.args.traditionalId,
     provider |-> Arr(normalizeProvider(c.args.provider)),
     email |-> IF c.args.email # NoEmail THEN c.args.email
               ELSE FreshUnknownEmail(s)]

\* The change addDid or connectWallet makes to the mapping it holds.
ApplyChange(c) ==
    IF c.op = "addDid"
    THEN [c EXCEPT !.doc = [c.doc EXCEPT !.did = c.args.did,
                                         !.didMethod = "key",
                                         !.migrationPhase = "preparation"],
                   !.pc = "save"]
    ELSE LET connected == [c.doc EXCEPT !.walletConnected = TRUE,
                                        !.walletConnectionId = c.args.connectionId]
         IN [c EXCEPT !.doc = IF connected.did # NoDid
                              THEN [connected EXCEPT !.migrationPhase = "hybrid"]
                              ELSE connected,
                      !.pc = "save"]

\* findOrCreateMapping on a mapping it found: the update of user details.
EmailStep(c) ==
    IF c.args.email # NoEmail /\ c.args.email # c.doc.email
    THEN [c EXCEPT !.doc = [c.doc EXCEPT !.email = c.args.email],
                   !.pc = "saveEmail"]
    ELSE Done(c)

\* findOrCreateMapping on a mapping it found: the update of the provider list.
ProviderStep(c) ==
    LET normalizedProvider == normalizeProvider(c.args.provider)
    IN IF \E k \in DOMAIN normalizedProvider :
             ~Includes(c.doc.provider, normalizedProvider[k])
       THEN [c EXCEPT !.doc = [c.doc EXCEPT
                                 !.provider = UnionSeq(@, normalizedProvider)],
                      !.pc = "saveProviders"]
       ELSE EmailStep(c)

\* The caller's code after findByTraditionalId returned c.doc.
AfterLookup(c, s) ==
    IF c.op = "findOrCreateMapping"
    THEN IF c.doc # NoMapping THEN ProviderStep(c)
         ELSE IF c.args.email # NoEmail THEN [c EXCEPT !.pc = "findByEmail"]
         ELSE [c EXCEPT !.pc = "createMapping.findOne", !.data = LoginData(c, s)]
    ELSE IF c.doc # NoMapping THEN ApplyChange(c)
         ELSE [c EXCEPT !.pc = "createMapping.findOne", !.data = PlaceholderData(c)]

\* The caller's code after createMapping returned c.doc.
AfterCreate(c) ==
    IF c.op \in {"addDid", "connectWallet"} THEN ApplyChange(c) ELSE Done(c)

\* The code after a save, by the place of the save.
AfterSave(c, s) ==
    CASE c.pc = "push" -> AfterLookup(c, s)
      [] c.pc = "createMapping.save" -> AfterCreate(c)
      [] c.pc = "saveProviders" -> EmailStep(c)
      [] OTHER -> Done(c)

\* One database call of a call in flight, and the code up to the next one.
StepCall(c, s, vs) ==
    LET normalizedProvider == normalizeProvider(c.args.provider)
        id == c.args.traditionalId
    IN CASE c.pc = "findByDid" ->
              IF IdxByDid(s, c.args.did) # 0 THEN Step(Fail(c, "Conflict"), s, vs)
              ELSE Step([c EXCEPT !.pc = IF Len(normalizedProvider) > 0
                                         THEN "findExact" ELSE "findIdOnly"],
                        s, vs)
         [] c.pc = "findExact" ->
              LET i == IdxByTraditionalIdAndProvider(s, id, normalizedProvider)
              IN IF i # 0 THEN Step(AfterLookup(Load(c, s, vs, i), s), s, vs)
                 ELSE Step([c EXCEPT !.pc = "findIdOnly"], s, vs)
         [] c.pc = "findIdOnly" ->
              LET i == IdxByTraditionalId(s, id)
              IN IF i = 0 THEN Step(AfterLookup(c, s), s, vs)
                 ELSE IF /\ Len(normalizedProvider) = 1
                         /\ ~areProvidersRelated(normalizedProvider[1], s[i].provider)
                 THEN LET pushed == [s[i] EXCEPT
                                       !.provider = Append(@, normalizedProvider[1])]
                      IN Step([c EXCEPT !.doc = pushed, !.snap = pushed,
                                        !.v = vs[id],
                                        !.push = normalizedProvider[1],
                                        !.pc = "push"], s, vs)
                 ELSE Step(AfterLookup(Load(c, s, vs, i), s), s, vs)
         [] c.pc = "push" ->
              LET out == PushDoc(c, s, vs)
              IN IF out.call.err # "" THEN out
                 ELSE Step(AfterSave(out.call, out.store), out.store, out.versions)
         [] c.pc = "findByEmail" ->
              LET i == IdxByEmail(s, c.args.email)
              IN IF i = 0
                 THEN Step([c EXCEPT !.pc = "createMapping.findOne",
                                     !.data = LoginData(c, s)], s, vs)
                 ELSE LET found == Load(c, s, vs, i)
                      IN Step([found EXCEPT
                                 !.doc = [found.doc EXCEPT
                                            !.provider = UnionSeq(@, normalizedProvider)],
                                 !.pc = "saveByEmail"], s, vs)
         [] c.pc = "createMapping.findOne" ->
              LET providers == normalizeProvider(c.data.provider)
                  i == IdxByTraditionalId(s, c.data.traditionalId)
              IN IF i = 0 THEN Step([c EXCEPT !.pc = "createMapping.insert"], s, vs)
                 ELSE LET found == Load(c, s, vs, i)
                      IN IF \E k \in DOMAIN providers :
                               ~Includes(s[i].provider, providers[k])
                         THEN Step([found EXCEPT
                                      !.doc = [found.doc EXCEPT
                                                 !.provider = UnionSeq(@, providers)],
                                      !.pc = "createMapping.save"], s, vs)
                         ELSE Step(AfterCreate(found), s, vs)
         [] c.pc = "createMapping.insert" ->
              IF \/ c.data.traditionalId = NoId
                 \/ ~HasKey(c.data, "email") \/ c.data.email = NoEmail
              THEN Step(Fail(c, "ValidationError"), s, vs)
              ELSE LET doc == [IdentityMapping(c.data) EXCEPT
                                 !.provider = normalizeProvider(c.data.provider),
                                 !.migrationPhase = InitialPhase(c.data)]
                       out == InsertDoc(s, doc)
                   IN IF out.err # ""
                      THEN Step([Fail(c, out.err) EXCEPT !.inserted = TRUE], s, vs)
                      ELSE Step(AfterCreate([c EXCEPT !.doc = doc, !.snap = doc,
                                                      !.v = 0, !.inserted = TRUE]),
                                out.store, vs)
         [] OTHER ->
              LET out == SaveDoc(c, s, vs)
              IN IF out.call.err # "" THEN out
                 ELSE Step(AfterSave(out.call, out.store), out.store, out.versions)

\* The calls two clients make side by side.
ConcurrentCalls ==
    {NewCall("createMapping",
             [NoCallArgs EXCEPT !.traditionalId = "u1", !.provider = Str(p),
                                !.email = <<"a", "b.com">>]) :
        p \in {"oidc", "keycloak-saml"}}
    \cup {NewCall("findOrCreateMapping",
                  [NoCallArgs EXCEPT !.traditionalId = id, !.provider = Str(p),
                                     !.email = <<"a", "b.com">>]) :
             id \in Ids, p \in {"saml", "oidc"}}
    \cup {NewCall("addDid",
                  [NoCallArgs EXCEPT !.traditionalId = id, !.provider = Str("saml"),
                                     !.did = "did:key:1"]) : id \in Ids}
    \cup {NewCall("connectWallet",
                  [NoCallArgs EXCEPT !.traditionalId = "u1", !.provider = Str("saml"),
                                     !.connectionId = "conn-1"])}

\* The collection the two calls start from: empty, or holding u1's and u2's
\* SAML mappings.
ConcurrentStores ==
    {<<>>,
     <<IdentityMapping([traditionalId |-> "u1", provider |-> <<"saml">>,
                        email |-> <<"a", "b.com">>]),
       IdentityMapping([traditionalId |-> "u2", provider |-> <<"saml">>,
                        email |-> <<"c", "d.com">>])>>}

InitConcurrent ==
    /\ store \in ConcurrentStores
    /\ prev = store
    /\ last = [op |-> "none", args |-> <<>>, ret |-> NoMapping, err |-> ""]
    /\ nOps = 0
    /\ calls \in [CallIds -> ConcurrentCalls]
    /\ versions = [id \in Ids |-> 0]
    /\ registry = EmptyRegistry
    /\ wallet = EmptyWallet

\* One call runs its next database call.
Advance ==
    \E k \in CallIds :
        /\ calls[k].pc # "done"
        /\ LET out == StepCall(calls[k], store, versions)
           IN /\ calls' = [calls EXCEPT ![k] = out.call]
              /\ store' = out.store
              /\ versions' = out.versions
        /\ UNCHANGED <<prev, last, nOps, registry, wallet>>

NextConcurrent == Advance

SpecConcurrent == InitConcurrent /\ [][NextConcurrent]_vars


(***************************************************************************)
(* Properties of concurrent calls (SpecConcurrent; prev is the collection  *)
(* the two calls started from)                                             *)
(***************************************************************************)
AllDone == \A k \in DOMAIN calls : calls[k].pc = "done"

RequestedProvider(c) == normalizeProvider(c.args.provider)[1]

C12_ConcurrentAddDidOneWins ==
    (/\ AllDone
     /\ \A k \in DOMAIN calls : calls[k].op = "addDid"
     /\ calls[1].args.did = calls[2].args.did
     /\ calls[1].args.traditionalId # calls[2].args.traditionalId)
    => /\ Cardinality({i \in DOMAIN store : store[i].did = calls[1].args.did}) <= 1
       /\ \E k \in DOMAIN calls : calls[k].err # ""

\* C13: when two createMapping / findOrCreateMapping calls that each bring a
\* different provider the mapping did not have have both ended, the stored
\* provider list holds both providers.
C13_ConcurrentProviderMergeKeepsBoth ==
    \A id \in Ids :
        (/\ AllDone
         /\ IdxByTraditionalId(prev, id) # 0
         /\ \A k \in DOMAIN calls :
               /\ calls[k].op \in {"createMapping", "findOrCreateMapping"}
               /\ calls[k].args.traditionalId = id
               /\ ~Includes(MappingOf(prev, id).provider, RequestedProvider(calls[k]))
         /\ RequestedProvider(calls[1]) # RequestedProvider(calls[2]))
        => \A k \in DOMAIN calls :
              Includes(MappingOf(store, id).provider, RequestedProvider(calls[k]))

\* C14: when an addDid and a connectWallet on the same existing mapping have
\* both succeeded, the mapping carries the DID, has walletConnected = true
\* and is in phase hybrid.
C14_ConcurrentAddDidConnectWalletHybrid ==
    \A id \in Ids :
        (/\ AllDone
         /\ IdxByTraditionalId(prev, id) # 0
         /\ {calls[k].op : k \in DOMAIN calls} = {"addDid", "connectWallet"}
         /\ \A k \in DOMAIN calls :
               calls[k].args.traditionalId = id /\ calls[k].err = "")
        => LET m == MappingOf(store, id)
           IN /\ m.did # NoDid
              /\ m.walletConnected
              /\ m.migrationPhase = "hybrid"


(***************************************************************************)
(* Properties of deleteMapping, updateMapping and the provider lists       *)
(***************************************************************************)
\* C15: deleteMapping(id, P) with a non-empty P on a stored mapping whose
\* provider set is S removes the record when S \ P is empty and otherwise
\* keeps it with exactly the providers S \ P; the mapping it leaves never has
\* an empty provider list.
C15_DeleteMappingRemovesProviders ==
    (/\ last.op = "deleteMapping"
     /\ Len(normalizeProvider(last.args.provider)) > 0
     /\ Exists(prev, last.args.id))
    => LET S == Range(MappingOf(prev, last.args.id).provider)
           P == Range(normalizeProvider(last.args.provider))
       IN IF S \ P = {}
          THEN ~Exists(store, last.args.id)
          ELSE /\ Exists(store, last.args.id)
               /\ Range(MappingOf(store, last.args.id).provider) = S \ P
               /\ MappingOf(store, last.args.id).provider # <<>>


\* The traditionalIds of the stored documents, in collection order.
TraditionalIds(s) == [i \in DOMAIN s |-> s[i].traditionalId]

\* C16: an operation leaves every stored document's traditionalId as it was
\* (documents are only appended, or removed by deleteMapping); updateMapping
\* returns the mapping under the traditionalId it was called with, whatever
\* traditionalId or _id its patch carries, and on an unknown traditionalId
\* it fails with not-found and leaves the collection as it was.
C16_TraditionalIdImmutable ==
    /\ \/ TraditionalIds(store) = TraditionalIds(prev)
       \/ \E id \in Ids : TraditionalIds(store) = Append(TraditionalIds(prev), id)
       \/ /\ last.op = "deleteMapping"
          /\ TraditionalIds(store) = TraditionalIds(DeleteOne(prev, last.args.id))
    /\ last.op = "updateMapping" =>
          /\ TraditionalIds(store) = TraditionalIds(prev)
          /\ last.err = "" => last.ret.traditionalId = last.args.id
          /\ ~Exists(prev, last.args.id) => last.err = "NotFound" /\ store = prev

C16_Witness ==
    /\ last.op = "updateMapping"
    /\ HasKey(last.args.patch, "traditionalId")
    /\ last.args.patch.traditionalId # last.args.id
    /\ Exists(prev, last.args.id)
    /\ last.err = ""
    /\ last.ret.traditionalId = last.args.id


\* C17: after any operation other than deleteMapping, every mapping that was
\* stored is still stored and its provider list holds every provider it held
\* before.
C17_ProvidersOnlyGrow ==
    last.op # "deleteMapping" =>
        \A i \in DOMAIN prev :
            /\ Exists(store, prev[i].traditionalId)
            /\ Range(prev[i].provider)
                  \subseteq Range(MappingOf(store, prev[i].traditionalId).provider)

C17_Witness ==
    /\ last.op = "updateMapping"
    /\ last.err = ""
    /\ HasKey(last.args.patch, "provider")
    /\ Range(MappingOf(prev, last.args.id).provider) # {}
    /\ Range(MappingOf(prev, last.args.id).provider)
          \subseteq Range(MappingOf(store, last.args.id).provider)
    /\ Range(MappingOf(prev, last.args.id).provider)
          # Range(MappingOf(store, last.args.id).provider)


(***************************************************************************)
(* Protocol Translator (server/src/services/identity/translator.js)        *)
(*                                                                         *)
(* A payload is null (NoPayload) or a record of its fields; a field the    *)
(* payload lacks (undefined) is NoId, NoEmail or NoTime.                   *)
(***************************************************************************)
NoPayload == [null |-> TRUE]
NoTime == ""

Return(value) == [ret |-> value, err |-> ""]
Raise(err) == [ret |-> NoPayload, err |-> err]

\* The parts of a DID between its colons.
DidParts(did) ==
    CASE did = "did:key:1" -> <<"did", "key", "1">>
      [] did = "did:key:2" -> <<"did", "key", "2">>

extractSamlAssertion(user) ==
    IF user = NoPayload \/ ~user.profile THEN Raise("Invalid user data")
    ELSE Return([subject |-> user.id, attributes |-> [email |-> user.email]])

extractFromSaml(assertion) ==
    IF assertion = NoPayload \/ assertion.attributes = NoPayload
    THEN Raise("Failed to extract identity from SAML assertion")
    ELSE Return([id |-> assertion.subject,
                 authProtocol |-> "saml",
                 email |-> assertion.attributes.email])

extractFromOidc(token) ==
    IF token = NoPayload \/ (token.auth_time = NoTime /\ token.iat = NoTime)
    THEN Raise("Failed to extract identity from OIDC token")
    ELSE Return([id |-> token.sub,
                 authProtocol |-> "oidc",
                 email |-> token.email])

extractFromDidDocument(didDocument) ==
    IF didDocument = NoPayload \/ didDocument.id = NoId
    THEN Raise("Failed to extract identity from DID document")
    ELSE Return([id |-> didDocument.id,
                 authProtocol |-> "did",
                 authProvider |-> DidParts(didDocument.id)[2],
                 email |-> NoEmail])

\* obj[key] || fallback
Field(obj, key, fallback) ==
    IF HasKey(obj, key) /\ obj[key] # "" THEN obj[key] ELSE fallback

\* `${firstName} ${lastName}`
FullName(firstName, lastName) == firstName \o " " \o lastName

extractFromVerifiableCredential(credential) ==
    IF \/ credential = NoPayload
       \/ credential.credentialSubject = NoPayload
       \/ credential.credentialSubject.id = NoId
    THEN Raise("Failed to extract identity from Verifiable Credential")
    ELSE LET subject == credential.credentialSubject
             firstName == Field(subject, "firstName", Field(subject, "givenName", ""))
             lastName == Field(subject, "lastName", Field(subject, "familyName", ""))
         IN Return([id |-> subject.id,
                    authProtocol |-> "vc",
                    email |-> subject.email,
                    firstName |-> firstName,
                    lastName |-> lastName,
                    displayName |->
                        Field(subject, "name", FullName(firstName, lastName)),
                    roles |-> IF HasKey(subject, "roles") THEN subject.roles
                              ELSE <<>>])

\* The claims of the signed token.
generateJwt(identity, mapping) ==
    IF identity = NoPayload \/ identity.id = NoId THEN Raise("Failed to generate JWT")
    ELSE Return([sub |-> identity.id,
                 auth_protocol |-> identity.authProtocol,
                 email |-> identity.email,
                 migration_phase |-> mapping.migrationPhase,
                 did |-> mapping.did,
                 mapping_id |-> mapping.traditionalId,
                 wallet_connected |-> mapping.walletConnected])

\* Payloads of the extraction functions.
SamlAssertions ==
    {NoPayload}
    \cup {[subject |-> s, attributes |-> a] :
            s \in Ids \cup {NoId},
            a \in {NoPayload} \cup {[email |-> e] : e \in IdentityEmails \cup {NoEmail}}}

OidcClaims ==
    {NoPayload}
    \cup {[sub |-> s, email |-> e, iat |-> t, auth_time |-> u] :
            s \in Ids \cup {NoId}, e \in IdentityEmails \cup {NoEmail},
            t \in {NoTime, "iat-1"}, u \in {NoTime, "auth-1"}}

Credentials ==
    {NoPayload}
    \cup {[issuer |-> i, credentialSubject |-> cs] :
            i \in {"did:example:issuer", "did:web:issuer"},
            cs \in {NoPayload}
                   \cup {[id |-> s, email |-> e] :
                           s \in {"did:key:1", NoId},
                           e \in IdentityEmails \cup {NoEmail}}}

DidDocuments == {NoPayload} \cup {[id |-> d] : d \in Dids \cup {NoId}}

\* A payload handed to the translator.
InitTranslate ==
    /\ store = <<>>
    /\ prev = <<>>
    /\ \E payload \in SamlAssertions \cup OidcClaims \cup Credentials \cup DidDocuments :
          last = [op |-> "payload", args |-> payload, ret |-> NoPayload, err |-> ""]
    /\ nOps = 0
    /\ calls = <<>>
    /\ versions = <<>>
    /\ registry = EmptyRegistry
    /\ wallet = EmptyWallet

Extract(op, out) ==
    /\ last.op = "payload"
    /\ Run(op, last.args, [store |-> store, ret |-> out.ret, err |-> out.err])

ExtractFromSaml ==
    /\ last.args \in SamlAssertions
    /\ Extract("extractFromSaml", extractFromSaml(last.args))

ExtractFromOidc ==
    /\ last.args \in OidcClaims
    /\ Extract("extractFromOidc", extractFromOidc(last.args))

ExtractFromVerifiableCredential ==
    /\ last.args \in Credentials
    /\ Extract("extractFromVerifiableCredential",
               extractFromVerifiableCredential(last.args))

ExtractFromDidDocument ==
    /\ last.args \in DidDocuments
    /\ Extract("extractFromDidDocument", extractFromDidDocument(last.args))

NextTranslate ==
    \/ ExtractFromSaml
    \/ ExtractFromOidc
    \/ ExtractFromVerifiableCredential
    \/ ExtractFromDidDocument

SpecTranslate == InitTranslate /\ [][NextTranslate]_vars

\* The identifying field of the payload of the last extraction.
IdentifyingField ==
    CASE last.args = NoPayload -> NoId
      [] last.op = "extractFromSaml" -> last.args.subject
      [] last.op = "extractFromOidc" -> last.args.sub
      [] last.op = "extractFromVerifiableCredential" ->
            IF last.args.credentialSubject = NoPayload THEN NoId
            ELSE last.args.credentialSubject.id
      [] OTHER -> last.args.id

\* C18: an extraction whose payload lacks the identifying field (SAML
\* subject, OIDC sub, credentialSubject.id, DID document id) fails, and no
\* extraction returns an identity whose id is absent.
C18_ExtractionFailsWithoutId ==
    last.op \in {"extractFromSaml", "extractFromOidc",
                 "extractFromVerifiableCredential", "extractFromDidDocument"}
    => /\ IdentifyingField = NoId => last.err # ""
       /\ last.err = "" => last.ret.id # NoId


(***************************************************************************)
(* Protocol Bridge (server/src/services/protocol-bridge.js)                *)
(***************************************************************************)
\* The processed user an authentication returns.
ProcessedUser(mapping, token) ==
    [mappingId |-> mapping.traditionalId,
     migrationPhase |-> mapping.migrationPhase,
     hasDid |-> mapping.did # NoDid,
     walletConnected |-> mapping.walletConnected,
     token |-> token]

\* Steps 3 to 7 of processSamlAuth, shared by the three flows: correlate the
\* identity, then sign the token.
Correlate(s, identity, provider) ==
    LET found == findOrCreateMapping(s, identity, Str(provider))
        token == generateJwt(identity, found.ret)
    IN IF found.err # "" THEN Throw(found.store, found.err)
       ELSE IF token.err # "" THEN Throw(found.store, token.err)
       ELSE Ok(found.store, ProcessedUser(found.ret, token.ret))

processSamlAuth(s, user) ==
    LET assertion == extractSamlAssertion(user)
        identity == extractFromSaml(assertion.ret)
    IN IF user = NoPayload THEN Throw(s, "TypeError")
       ELSE IF assertion.err # "" THEN Throw(s, assertion.err)
       ELSE IF identity.err # "" THEN Throw(s, identity.err)
       ELSE Correlate(s, identity.ret, "saml")

processOidcAuth(s, claims) ==
    LET identity == extractFromOidc(claims)
    IN IF identity.err # "" THEN Throw(s, identity.err)
       ELSE Correlate(s, identity.ret, "oidc")

\* The verdicts of ProtocolBridge.verifyCredential: verified, verified: false,
\* or an exception of the credential service.
Verdicts == {"verified", "rejected", "error"}

\* The verdicts a round trip can meet: those of verifyCredential when the
\* flow reaches it, "none" when it does not (another protocol, no payload, the
\* example issuer, or no issuer DID configured).
VerdictsFor(protocol, data, issuerDid) ==
    IF /\ protocol = "vc"
       /\ data # NoPayload
       /\ data.issuer # "did:example:issuer"
       /\ issuerDid # NoDid
    THEN Verdicts
    ELSE {"none"}

\* The try block of executeRoundTrip. verification is the verdict
\* verifyCredential gives when asked; issuerDid is config.didRegistry.issuerDid
\* (NoDid when DID_REGISTRY_ISSUER_DID is unset).
tryRoundTrip(s, protocol, data, verification, issuerDid) ==
    IF protocol # "vc" THEN Throw(s, "Unsupported protocol")
    ELSE IF data = NoPayload THEN Throw(s, "TypeError")
    ELSE
    LET skipVerification ==
            data.issuer = "did:example:issuer" \/ issuerDid = NoDid
    IN IF ~skipVerification /\ verification = "error"
       THEN Throw(s, "Credential verification failed: error")
       ELSE IF ~skipVerification /\ verification # "verified"
            THEN Throw(s, "Credential verification failed")
       ELSE Bind(extractFromVerifiableCredential(data), LAMBDA identity :
            IF identity.err # "" THEN Throw(s, identity.err)
            ELSE Bind(findOrCreateMapping(s, identity.ret, Str("vc")), LAMBDA found :
                 IF found.err # "" THEN Throw(found.store, found.err)
                 ELSE Bind(generateJwt(identity.ret, found.ret), LAMBDA authToken :
                      IF authToken.err # "" THEN Throw(found.store, authToken.err)
                      ELSE Ok(found.store,
                              [success |-> TRUE,
                               token |-> authToken.ret,
                               user |-> [id |-> identity.ret.id,
                                         email |-> identity.ret.email,
                                         migrationPhase |-> found.ret.migrationPhase,
                                         did |-> found.ret.did,
                                         walletConnected |->
                                             found.ret.walletConnected]]))))

\* executeRoundTrip that lets the exception of its try block through.
executeRoundTrip_Rethrow(s, protocol, data, verification, issuerDid) ==
    tryRoundTrip(s, protocol, data, verification, issuerDid)

\* executeRoundTrip: the catch block turns every exception of the try block
\* into the value { success: false, error: error.message }.
executeRoundTrip(s, protocol, data, verification, issuerDid) ==
    Bind(tryRoundTrip(s, protocol, data, verification, issuerDid), LAMBDA tried :
         IF tried.err # ""
         THEN Ok(tried.store, [success |-> FALSE, error |-> tried.err])
         ELSE tried)

\* Values of config.didRegistry.issuerDid: set, or unset.
IssuerDids == {"did:example:issuer", NoDid}

\* Payloads of the authentication flows.
SamlUsers ==
    {NoPayload, [id |-> "u1", email |-> <<"a", "b.com">>, profile |-> FALSE]}
    \cup {[id |-> i, email |-> e, profile |-> TRUE] :
            i \in Ids \cup {NoId}, e \in IdentityEmails \cup {NoEmail}}

TokenClaims ==
    {NoPayload}
    \cup {[sub |-> s, email |-> e, iat |-> "iat-1", auth_time |-> NoTime] :
            s \in Ids \cup {NoId}, e \in IdentityEmails \cup {NoEmail}}

PresentedCredentials ==
    {NoPayload,
     [issuer |-> "did:web:issuer",
      credentialSubject |-> [id |-> "did:key:1", email |-> <<"a", "b.com">>]]}
    \cup {[issuer |-> "did:example:issuer",
           credentialSubject |-> [id |-> s, email |-> e]] :
            s \in {"did:key:1", NoId}, e \in {<<"a", "b.com">>, NoEmail}}

\* The collection the flows start from: empty, or holding a mapping that
\* signed in with OIDC and has completed the wallet flow.
BridgeStores ==
    {<<>>,
     <<IdentityMapping([traditionalId |-> "u1", provider |-> <<"oidc">>,
                        email |-> <<"a", "b.com">>, did |-> "did:key:2",
                        didMethod |-> "ethr", walletConnected |-> TRUE,
                        walletConnectionId |-> "conn-1",
                        migrationPhase |-> "hybrid"])>>}

NoFlow == [op |-> "none", args |-> <<>>, ret |-> NoMapping, err |-> ""]

InitBridge ==
    /\ store \in BridgeStores
    /\ prev = store
    /\ last = [op |-> "none", args |-> <<>>, ret |-> NoMapping, err |-> "",
               before |-> NoFlow]
    /\ nOps = 0
    /\ calls = <<>>
    /\ versions = <<>>
    /\ registry = EmptyRegistry
    /\ wallet = EmptyWallet

\* One authentication flow; before keeps the flow that ran just before it.
RunFlow(op, args, outcome) ==
    /\ nOps < MaxOps
    /\ store' = outcome.store
    /\ prev' = store
    /\ last' = [op |-> op, args |-> args, ret |-> outcome.ret, err |-> outcome.err,
                before |-> [op |-> last.op, args |-> last.args,
                            ret |-> last.ret, err |-> last.err]]
    /\ nOps' = nOps + 1
    /\ UNCHANGED <<calls, versions, registry, wallet>>

ProcessSamlAuth ==
    \E user \in SamlUsers :
        RunFlow("processSamlAuth", user, processSamlAuth(store, user))

ProcessOidcAuth ==
    \E claims \in TokenClaims :
        RunFlow("processOidcAuth", claims, processOidcAuth(store, claims))

ExecuteRoundTrip ==
    \E protocol \in {"vc", "saml"}, data \in PresentedCredentials,
       issuerDid \in IssuerDids :
        \E verification \in VerdictsFor(protocol, data, issuerDid) :
            \E outcome \in {executeRoundTrip(store, protocol, data,
                                              verification, issuerDid)} :
                RunFlow("executeRoundTrip",
                        [protocol |-> protocol, data |-> data], outcome)

NextBridge == ProcessSamlAuth \/ ProcessOidcAuth \/ ExecuteRoundTrip

SpecBridge == InitBridge /\ [][NextBridge]_vars

\* The last flow failed: it threw, or it returned success: false.
FlowFailed ==
    \/ last.err # ""
    \/ HasKey(last.ret, "success") /\ ~last.ret.success

\* The correlation key of the payload of the last flow (NoId when absent).
CorrelationKey ==
    CASE last.op = "processSamlAuth" ->
            IF last.args = NoPayload THEN NoId ELSE last.args.id
      [] last.op = "processOidcAuth" ->
            IF last.args = NoPayload THEN NoId ELSE last.args.sub
      [] last.op = "executeRoundTrip" ->
            IF last.args.data = NoPayload THEN NoId
            ELSE last.args.data.credentialSubject.id
      [] OTHER -> NoId

\* C19: an authentication flow (processSamlAuth, processOidcAuth,
\* executeRoundTrip) whose payload lacks its correlation key fails and leaves
\* the collection as it was.
C19_NoCorrelationKeyNoEffect ==
    (last.op \in {"processSamlAuth", "processOidcAuth", "executeRoundTrip"}
     /\ CorrelationKey = NoId)
    => FlowFailed /\ store = prev

\* C20: when processSamlAuth or processOidcAuth runs again with the payload
\* of the flow just before it, it has the same outcome (the same mapping
\* resolved), the collection holds the same documents in the same order and
\* no document's did, walletConnected, migrationPhase or email has changed;
\* a provider list can only have gained providers.
C20_AuthReplayIdempotent ==
    (/\ last.op \in {"processSamlAuth", "processOidcAuth"}
     /\ last.before.op = last.op
     /\ last.before.args = last.args)
    => /\ last.err = last.before.err
       /\ last.err = "" => last.ret.mappingId = last.before.ret.mappingId
       /\ Len(store) = Len(prev)
       /\ \A i \in DOMAIN prev :
             /\ store[i].traditionalId = prev[i].traditionalId
             /\ store[i].did = prev[i].did
             /\ store[i].walletConnected = prev[i].walletConnected
             /\ store[i].migrationPhase = prev[i].migrationPhase
             /\ store[i].email = prev[i].email
             /\ Range(prev[i].provider) \subseteq Range(store[i].provider)

C20_Witness ==
    /\ last.op = "processSamlAuth"
    /\ last.before.op = last.op
    /\ last.before.args = last.args
    /\ last.err = ""
    /\ last.ret.mappingId = last.before.ret.mappingId
    /\ Includes(MappingOf(store, last.ret.mappingId).provider, "saml")
    /\ store = prev

(***************************************************************************)
(* Properties of the session token and of first logins                     *)
(***************************************************************************)
LoginFlows == {"processSamlAuth", "processOidcAuth", "executeRoundTrip"}

\* C21: the token a successful login flow issues has sub equal to the
\* traditionalId of the mapping findOrCreateMapping resolved, and its
\* migration_phase, did and wallet_connected equal that mapping's fields.
C21_TokenDescribesResolvedMapping ==
    (last.op \in LoginFlows /\ ~FlowFailed)
    => LET token == last.ret.token
           mapping == MappingOf(store, token.mapping_id)
       IN /\ token.sub = mapping.traditionalId
          /\ token.migration_phase = mapping.migrationPhase
          /\ token.did = mapping.did
          /\ token.wallet_connected = mapping.walletConnected

\* The identity a login flow extracted from its payload: id and email.
LoginId ==
    IF last.op = "processSamlAuth" THEN last.args.id ELSE last.args.sub

LoginProvider == IF last.op = "processSamlAuth" THEN "saml" ELSE "oidc"

\* The last flow was a first login: a well-formed payload whose id and email
\* match no mapping stored before it.
FirstLogin ==
    /\ last.op \in {"processSamlAuth", "processOidcAuth"}
    /\ last.args # NoPayload
    /\ last.op = "processSamlAuth" => last.args.profile
    /\ LoginId # NoId
    /\ ~Exists(prev, LoginId)
    /\ \A i \in DOMAIN prev : prev[i].email # last.args.email

\* C22: a first login through processSamlAuth or processOidcAuth succeeds,
\* returns migrationPhase traditional, hasDid = false and walletConnected =
\* false, and adds exactly one mapping, whose provider list is exactly the
\* protocol's provider and whose did is unset.
C22_FirstLoginCreatesTraditionalMapping ==
    FirstLogin
    => /\ last.err = ""
       /\ last.ret.migrationPhase = "traditional"
       /\ ~last.ret.hasDid
       /\ ~last.ret.walletConnected
       /\ last.ret.mappingId = LoginId
       /\ Len(store) = Len(prev) + 1
       /\ SubSeq(store, 1, Len(prev)) = prev
       /\ store[Len(store)].traditionalId = LoginId
       /\ store[Len(store)].provider = <<LoginProvider>>
       /\ store[Len(store)].did = NoDid

C22_Witness ==
    /\ FirstLogin
    /\ last.op = "processOidcAuth"
    /\ Len(prev) > 0
    /\ store[Len(store)].provider = <<"oidc">>
    /\ last.ret.migrationPhase = "traditional"

(***************************************************************************)
(* Protocol Bridge: wallet connection and credential issuance              *)
(***************************************************************************)
\* What a flow asked of its collaborators: whether didService.createDid,
\* walletService.createConnectionInvitation and
\* credentialService.createCredential were invoked, and the record
\* CredentialModel.create stored (NoPayload when none).
NoCollab ==
    [createDid |-> FALSE, createConnectionInvitation |-> FALSE,
     createCredential |-> FALSE, stored |-> NoPayload]

Flow(outcome, collab) ==
    [store |-> outcome.store, ret |-> outcome.ret, err |-> outcome.err,
     collab |-> collab]

\* The test that sends connectWallet to didService.createDid, without the
\* look at the mapping's DID.
NeedsDid_Always(mapping) == TRUE

\* if (!did), with did = mapping.did
NeedsDid(mapping) == mapping.did = NoDid

\* WalletConnector.createConnectionInvitation(userId, options) with no
\* options.connectionId. connectionId is the uuid drawn (NoConnection when
\* WalletConnection.create rejects). With or without a reply of the external
\* wallet service the record stored has status invited.
createConnectionInvitation(w, userId, connectionId) ==
    IF connectionId = NoConnection \/ connectionId \in DOMAIN w.connections
    THEN [wallet |-> w, ret |-> NoPayload,
          err |-> "Failed to create connection invitation"]
    ELSE [wallet |->
              [w EXCEPT !.connections =
                  [c \in DOMAIN w.connections \cup {connectionId} |->
                      IF c = connectionId
                      THEN [userId |-> userId, status |-> "invited"]
                      ELSE w.connections[c]]],
          ret |-> [connectionId |-> connectionId],
          err |-> ""]

\* WalletConnector.checkConnectionStatus(connectionId). state is
\* response.data.state of the external wallet service ("" when there is no
\* reply); the external service is asked only when an API key is configured.
checkConnectionStatus(w, connectionId, state) ==
    IF w.apiKey /\ state # ""
    THEN [wallet |->
              IF connectionId \in DOMAIN w.connections
              THEN [w EXCEPT !.connections[connectionId].status = state]
              ELSE w,
          ret |-> [connectionId |-> connectionId, status |-> state],
          err |-> ""]
    ELSE IF connectionId \in DOMAIN w.connections
         THEN [wallet |-> w,
               ret |-> [connectionId |-> connectionId,
                        status |-> w.connections[connectionId].status],
               err |-> ""]
    ELSE [wallet |-> w, ret |-> NoPayload,
          err |-> "Failed to check connection status"]

\* A flow of the bridge that also went through the wallet connector.
WalletFlow(outcome, collab, w) ==
    [store |-> outcome.store, ret |-> outcome.ret, err |-> outcome.err,
     collab |-> collab, wallet |-> w]

\* ProtocolBridge.connectWallet(userId, provider). created is the DID
\* didService.createDid returns (NoDid when it throws); invitation is the
\* connectionId walletService.createConnectionInvitation draws (NoConnection
\* when it throws).
ProtocolBridge_connectWallet(s, w, userId, provider, created, invitation) ==
    LET found == findByTraditionalId(s, userId, provider)
        mapping == found.ret
    IN IF mapping = NoMapping
       THEN WalletFlow(Throw(found.store, "No identity mapping found"),
                       NoCollab, w)
       ELSE
       LET needsDid == NeedsDid(mapping)
           did == IF needsDid THEN created ELSE mapping.did
           added == IF ~needsDid THEN found
                    ELSE IF created = NoDid
                         THEN Throw(found.store, "createDid failed")
                    ELSE addDid(found.store, userId, provider, created, "ethr")
           asked == [NoCollab EXCEPT !.createDid = needsDid]
           invited == [asked EXCEPT !.createConnectionInvitation = TRUE]
           connectionInvitation == createConnectionInvitation(w, userId, invitation)
       IN IF added.err # "" THEN WalletFlow(Throw(added.store, added.err), asked, w)
          ELSE IF connectionInvitation.err # ""
               THEN WalletFlow(Throw(added.store, connectionInvitation.err),
                               invited, connectionInvitation.wallet)
          ELSE LET connected ==
                       connectWallet(added.store, userId, provider,
                                     connectionInvitation.ret.connectionId)
                   phased ==
                       updateMigrationPhase(connected.store, userId, provider,
                                            "hybrid")
               IN IF connected.err # ""
                  THEN WalletFlow(Throw(connected.store, connected.err),
                                  invited, connectionInvitation.wallet)
                  ELSE IF phased.err # ""
                       THEN WalletFlow(Throw(phased.store, phased.err),
                                       invited, connectionInvitation.wallet)
                  ELSE WalletFlow(Ok(phased.store,
                                     [did |-> did,
                                      connectionId |->
                                          connectionInvitation.ret.connectionId]),
                                  invited, connectionInvitation.wallet)

\* { ...a, ...b }: the keys of both, b's value where both have the key.
Spread(a, b) ==
    [key \in DOMAIN a \cup DOMAIN b |-> IF HasKey(b, key) THEN b[key] ELSE a[key]]

\* CredentialService.createCredential(type, subjectDid, claims). issuerDid is
\* config.didRegistry.issuerDid (NoDid when DID_REGISTRY_ISSUER_DID is unset).
\* Returns the credential and the record handed to CredentialModel.create.
createCredential(type, subjectDid, claims, issuerDid) ==
    IF issuerDid = NoDid THEN Raise("Failed to create credential")
    ELSE LET credential ==
                 [type |-> <<"VerifiableCredential", type>>,
                  issuer |-> issuerDid,
                  credentialSubject |-> Spread([id |-> subjectDid], claims)]
         IN Return([credential |-> credential,
                    stored |-> [type |-> type, subjectDid |-> subjectDid,
                                issuer |-> issuerDid,
                                credential |-> credential]])

\* ProtocolBridge.issueCredential(userId, provider, credentialType, claims).
\* The name default (mapping.userDetails.displayName) is left out: documents
\* carry no userDetails here.
issueCredential(s, userId, provider, credentialType, claims, issuerDid) ==
    LET found == findByTraditionalId(s, userId, provider)
        mapping == found.ret
    IN IF mapping = NoMapping
       THEN Flow(Throw(found.store, "No identity mapping found"), NoCollab)
       ELSE IF mapping.did = NoDid
            THEN Flow(Throw(found.store, "User does not have a DID"), NoCollab)
       ELSE
       LET email == IF HasKey(claims, "email") /\ claims.email # NoEmail
                    THEN claims.email ELSE mapping.email
           credentialClaims == Spread(claims, [email |-> email])
           created == createCredential(credentialType, mapping.did,
                                       credentialClaims, issuerDid)
           asked == [NoCollab EXCEPT !.createCredential = TRUE]
       IN IF created.err # "" THEN Flow(Throw(found.store, created.err), asked)
          ELSE Flow(Ok(found.store,
                       [credential |-> created.ret.credential,
                        status |-> "issued", type |-> credentialType]),
                    [asked EXCEPT !.stored = created.ret.stored])

\* Outcomes of didService.createDid and of
\* walletService.createConnectionInvitation.
CreatedDids == Dids \cup {NoDid}

Invitations == {"conn-1", "conn-2", NoConnection}

\* Bodies of POST /api/bridge/credentials/issue.
CredentialTypes == {"IdentityCredential"}

NoClaims == [key \in {} |-> ""]

RequestedClaims ==
    {NoClaims, [email |-> <<"c", "d.com">>], [id |-> "did:key:1"]}

\* The collections the wallet and credential flows start from: empty, a
\* mapping that only signed in, one that completed the wallet flow, one with
\* a DID but no wallet next to one that only signed in.
OrchestrateStores ==
    {<<>>,
     <<IdentityMapping([traditionalId |-> "u1", provider |-> <<"saml">>,
                        email |-> <<"a", "b.com">>])>>,
     <<IdentityMapping([traditionalId |-> "u1", provider |-> <<"oidc">>,
                        email |-> <<"a", "b.com">>, did |-> "did:key:2",
                        didMethod |-> "ethr", walletConnected |-> TRUE,
                        walletConnectionId |-> "conn-1",
                        migrationPhase |-> "hybrid"])>>,
     <<IdentityMapping([traditionalId |-> "u1", provider |-> <<"saml">>,
                        email |-> <<"a", "b.com">>]),
       IdentityMapping([traditionalId |-> "u2", provider |-> <<"oidc">>,
                        email |-> <<"c", "d.com">>, did |-> "did:key:1",
                        didMethod |-> "ethr",
                        migrationPhase |-> "preparation"])>>}

\* The WalletConnection collection beside a store: one record, active, for
\* each connection id a mapping carries.
ConnectionsOf(s) ==
    [c \in {s[i].walletConnectionId : i \in 1..Len(s)} \ {NoConnection} |->
        [userId |-> (CHOOSE i \in 1..Len(s) :
                         s[i].walletConnectionId = c) , status |-> "active"]]

\* What the external wallet service answers for a connection ("" when
\* it does not answer).
ConnectionStates == {"", "active", "completed"}

InitOrchestrate ==
    /\ store \in OrchestrateStores
    /\ prev = store
    /\ last = [op |-> "none", args |-> <<>>, ret |-> NoMapping, err |-> "",
               collab |-> NoCollab, retry |-> NoPayload, retryOf |-> NoPayload]
    /\ nOps = 0
    /\ calls = <<>>
    /\ versions = <<>>
    /\ registry = EmptyRegistry
    /\ \E apiKey \in BOOLEAN :
          wallet = [EmptyWallet EXCEPT !.apiKey = apiKey,
                                       !.connections = ConnectionsOf(store)]

\* A connectWallet that created and attached a DID and then failed at the
\* invitation leaves a retry: the user and the DID attached.
Retry(op, args, outcome) ==
    IF /\ op = "connectWallet"
       /\ outcome.err # ""
       /\ outcome.collab.createDid
       /\ outcome.collab.createConnectionInvitation
    THEN [userId |-> args.userId, did |-> args.created]
    ELSE NoPayload

\* retryOf is the retry the operation before left.
RunOrchestrate(op, args, outcome) ==
    /\ nOps < MaxOps
    /\ store' = outcome.store
    /\ prev' = store
    /\ last' = [op |-> op, args |-> args, ret |-> outcome.ret,
                err |-> outcome.err, collab |-> outcome.collab,
                retry |-> Retry(op, args, outcome), retryOf |-> last.retry]
    /\ nOps' = nOps + 1
    /\ wallet' = IF HasKey(outcome, "wallet") THEN outcome.wallet ELSE wallet
    /\ UNCHANGED <<calls, versions, registry>>

\* The uuid drawn for the invitation is not the id of a stored connection.
BridgeConnectWallet ==
    \E userId \in Ids, provider \in RouteProviders,
       created \in CreatedDids,
       invitation \in Invitations \ DOMAIN wallet.connections :
        \E outcome \in {ProtocolBridge_connectWallet(store, wallet, userId,
                                                       provider, created,
                                                       invitation)} :
            RunOrchestrate("connectWallet",
                           [userId |-> userId, provider |-> provider,
                            created |-> created],
                           outcome)

\* GET /api/wallet/connections/:id
CheckConnectionStatus ==
    \E connectionId \in Invitations \ {NoConnection},
       state \in ConnectionStates :
        \E checked \in {checkConnectionStatus(wallet, connectionId, state)} :
            RunOrchestrate("checkConnectionStatus",
                           [connectionId |-> connectionId],
                           [store |-> store, ret |-> checked.ret,
                            err |-> checked.err, collab |-> NoCollab,
                            wallet |-> checked.wallet])

IssueCredential ==
    \E userId \in Ids, provider \in RouteProviders,
       credentialType \in CredentialTypes, claims \in RequestedClaims,
       issuerDid \in IssuerDids :
        RunOrchestrate("issueCredential",
                       [userId |-> userId, provider |-> provider,
                        claims |-> claims],
                       issueCredential(store, userId, provider, credentialType,
                                       claims, issuerDid))

NextOrchestrate ==
    BridgeConnectWallet \/ IssueCredential \/ CheckConnectionStatus

SpecOrchestrate == InitOrchestrate /\ [][NextOrchestrate]_vars

\* C23: when the bridge's connectWallet succeeds for an id that had a
\* mapping, that mapping has the returned DID (the one it already had when it
\* had one), walletConnected = true, walletConnectionId equal to the returned
\* connectionId and migrationPhase hybrid; createDid is invoked only for a
\* mapping without a DID; for an id without a mapping the call fails and
\* invokes neither createDid nor createConnectionInvitation.
C23_ConnectWalletReachesHybrid ==
    last.op = "connectWallet"
    => LET id == last.args.userId
       IN /\ (last.err = "" /\ Exists(prev, id))
             => LET before == MappingOf(prev, id)
                    after == MappingOf(store, id)
                IN /\ after.did # NoDid
                   /\ after.did = last.ret.did
                   /\ before.did # NoDid => after.did = before.did
                   /\ after.walletConnected
                   /\ after.walletConnectionId = last.ret.connectionId
                   /\ after.migrationPhase = "hybrid"
          /\ last.collab.createDid
             => Exists(prev, id) /\ MappingOf(prev, id).did = NoDid
          /\ ~Exists(prev, id)
             => /\ last.err # ""
                /\ ~last.collab.createDid
                /\ ~last.collab.createConnectionInvitation
                /\ store = prev

\* A mapping with a DID and no wallet is connected with its own DID kept,
\* although createDid had another DID to offer.
C23_Witness ==
    /\ last.op = "connectWallet"
    /\ last.err = ""
    /\ Exists(prev, last.args.userId)
    /\ MappingOf(prev, last.args.userId).did = "did:key:1"
    /\ ~MappingOf(prev, last.args.userId).walletConnected
    /\ last.args.created = "did:key:2"
    /\ ~last.collab.createDid
    /\ MappingOf(store, last.args.userId).migrationPhase = "hybrid"
    /\ MappingOf(store, last.args.userId).did = "did:key:1"

\* C24: issueCredential fails when the id has no mapping or its mapping has
\* no DID, and then createCredential is not invoked and no credential record
\* is stored; when it succeeds, the subject of the credential it returns is
\* the mapping's DID.
C24_IssueCredentialSubjectIsMappingDid ==
    last.op = "issueCredential"
    => LET id == last.args.userId
       IN /\ (~Exists(prev, id) \/ MappingOf(prev, id).did = NoDid)
             => /\ last.err # ""
                /\ ~last.collab.createCredential
                /\ last.collab.stored = NoPayload
          /\ last.err = ""
             => last.ret.credential.credentialSubject.id
                    = MappingOf(store, id).did

\* The round trip on its own, keeping the verdict of verification and the
\* configured issuer next to the payload.
RoundTrip ==
    \E protocol \in {"vc", "saml"}, data \in PresentedCredentials,
       issuerDid \in IssuerDids :
        \E verification \in VerdictsFor(protocol, data, issuerDid) :
            \E outcome \in {executeRoundTrip(store, protocol, data,
                                              verification, issuerDid)} :
                RunFlow("executeRoundTrip",
                        [protocol |-> protocol, data |-> data,
                         verification |-> verification, issuerDid |-> issuerDid],
                        outcome)

NextRoundTrip == RoundTrip

SpecRoundTrip == InitBridge /\ [][NextRoundTrip]_vars

\* The last flow was executeRoundTrip('vc', vc) for a credential that is not
\* from the example issuer and that verification did not report verified.
UnverifiedForeignCredential ==
    /\ last.op = "executeRoundTrip"
    /\ last.args.protocol = "vc"
    /\ last.args.data # NoPayload
    /\ last.args.data.issuer # "did:example:issuer"
    /\ last.args.verification # "verified"

\* C25: executeRoundTrip('vc', vc) for a credential whose issuer is not
\* did:example:issuer and that was not reported verified returns no token
\* and leaves the collection as it was.
C25_UnverifiedCredentialYieldsNothing ==
    UnverifiedForeignCredential
    => /\ ~last.ret.success
       /\ ~HasKey(last.ret, "token")
       /\ store = prev

\* C26: executeRoundTrip throws nothing: it returns a value with a success
\* field, and a failure (unsupported protocol included) is the value
\* success = false with a non-empty error message.
C26_RoundTripNeverThrows ==
    last.op = "executeRoundTrip"
    => /\ last.err = ""
       /\ HasKey(last.ret, "success")
       /\ ~last.ret.success
          => HasKey(last.ret, "error") /\ last.ret.error # ""
       /\ last.args.protocol # "vc" => ~last.ret.success

\* An unsupported protocol came back as a failure value.
C26_Witness ==
    /\ last.op = "executeRoundTrip"
    /\ last.args.protocol = "saml"
    /\ last.err = ""
    /\ ~last.ret.success
    /\ last.ret.error = "Unsupported protocol"

(***************************************************************************)
(* Protocol Bridge Service (server/src/services/protocol-bridge/index.js)  *)
(***************************************************************************)
\* translateSamlToVC(samlAssertion); issued tells whether
\* vcService.issueCredential returns the credential or throws.
translateSamlToVC(samlAssertion, issued) ==
    IF samlAssertion = NoPayload
    THEN Raise("Failed to translate SAML to VC: SAML assertion is required")
    ELSE
    LET attributes == IF HasKey(samlAssertion, "attributes")
                      THEN samlAssertion.attributes ELSE NoClaims
        issuer == Field(samlAssertion, "Issuer", "unknown-issuer")
        credentialSubject ==
            Spread([id |-> Field(attributes, "nameID", "did:example:now")],
                   attributes)
        credential ==
            [type |-> <<"VerifiableCredential", "SAMLDerivedCredential">>,
             issuer |-> issuer,
             credentialSubject |-> credentialSubject]
    IN IF issued THEN Return(credential)
       ELSE Raise("Failed to translate SAML to VC: Failed to issue VC")

\* translateOidcToVC(oidcToken); `did:web:${x}` is kept as the pair of its
\* parts.
translateOidcToVC(oidcToken, issued) ==
    IF oidcToken = NoPayload
    THEN Raise("Failed to translate OIDC to VC: OIDC token is required")
    ELSE
    LET claims == oidcToken
        issuer == Field(claims, "iss", "unknown-issuer")
        subjectId == IF Field(claims, "sub", NoId) # NoId
                     THEN <<"did:web", claims.sub>>
                     ELSE <<"did:example", "now">>
        credential ==
            [type |-> <<"VerifiableCredential", "OIDCDerivedCredential">>,
             issuer |-> <<"did:web", issuer>>,
             credentialSubject |-> Spread([id |-> subjectId], claims)]
    IN IF issued THEN Return(credential)
       ELSE Raise("Failed to translate OIDC to VC: Failed to issue VC")

\* The first credential of a presentation, or the error reading it throws.
FirstCredential(verifiablePresentation, failure) ==
    IF verifiablePresentation = NoPayload
    THEN Raise(failure)
    ELSE IF ~HasKey(verifiablePresentation, "verifiableCredential")
         THEN Raise(failure)
    ELSE IF Len(verifiablePresentation.verifiableCredential) = 0
         THEN Raise(failure)
    ELSE Return(verifiablePresentation.verifiableCredential[1])

translateDidToSaml(verifiablePresentation) ==
    LET first == FirstCredential(verifiablePresentation,
                                 "Failed to translate DID to SAML")
    IN IF first.err # "" THEN first
       ELSE LET credential == first.ret
                subject == credential.credentialSubject
            IN Return([Issuer |-> credential.issuer,
                       Subject |->
                           [NameID |-> Field(subject, "id",
                                             verifiablePresentation.holder)],
                       Attribute |->
                           [key \in DOMAIN subject \ {"id"} |-> subject[key]]])

translateDidToOidc(verifiablePresentation) ==
    LET first == FirstCredential(verifiablePresentation,
                                 "Failed to translate DID to OIDC")
    IN IF first.err # "" THEN first
       ELSE LET credential == first.ret
                subject == credential.credentialSubject
            IN Return([id_token |->
                           Spread([iss |-> credential.issuer,
                                   sub |-> Field(subject, "id",
                                                 verifiablePresentation.holder),
                                   aud |-> "default-audience"],
                                  subject),
                       token_type |-> "Bearer"])

\* The pairs translateProtocol has a branch for.
TranslatedPairs ==
    {<<"saml", "did">>, <<"oidc", "did">>, <<"did", "saml">>, <<"did", "oidc">>}

\* The branch test of translateProtocol that takes any pair starting or
\* ending at did.
HasBranch_AnyDidPair(sourceProtocol, targetProtocol) ==
    sourceProtocol = "did" \/ targetProtocol = "did"

HasBranch(sourceProtocol, targetProtocol) ==
    \/ sourceProtocol = "saml" /\ targetProtocol = "did"
    \/ sourceProtocol = "oidc" /\ targetProtocol = "did"
    \/ sourceProtocol = "did" /\ targetProtocol = "saml"
    \/ sourceProtocol = "did" /\ targetProtocol = "oidc"

\* translateProtocol(identity, sourceProtocol, targetProtocol): the value it
\* returns. The message of the unsupported pair is kept as its parts.
translateProtocol(identity, sourceProtocol, targetProtocol, issued) ==
    IF HasBranch(sourceProtocol, targetProtocol)
    THEN LET out == IF targetProtocol = "saml" THEN translateDidToSaml(identity)
                    ELSE IF targetProtocol = "oidc" THEN translateDidToOidc(identity)
                    ELSE IF sourceProtocol = "saml"
                         THEN translateSamlToVC(identity, issued)
                    ELSE translateOidcToVC(identity, issued)
         IN IF out.err # ""
            THEN [translated |-> FALSE, error |-> [message |-> out.err]]
            ELSE [translated |-> TRUE, result |-> out.ret]
    ELSE [translated |-> FALSE,
          error |-> [message |-> "Unsupported translation",
                     from |-> sourceProtocol, to |-> targetProtocol]]

\* Inputs of translateProtocol.
ProtocolNames == {"saml", "oidc", "did", "vc", "jwt"}

TranslatedIdentities ==
    {NoPayload,
     [Issuer |-> "idp-1", attributes |-> [nameID |-> "u1", role |-> "staff"]],
     [attributes |-> [role |-> "staff"]],
     [iss |-> "kc-1", sub |-> "u1"],
     [holder |-> "did:key:1", verifiableCredential |-> <<>>],
     [holder |-> "did:key:1",
      verifiableCredential |->
          <<[issuer |-> "did:example:issuer",
             credentialSubject |-> [id |-> "did:key:1", role |-> "staff"]]>>],
     [holder |-> "did:key:2",
      verifiableCredential |->
          <<[issuer |-> "did:example:issuer",
             credentialSubject |-> [role |-> "staff"]]>>]}

InitProtocols ==
    /\ store = <<>>
    /\ prev = <<>>
    /\ \E identity \in TranslatedIdentities,
          sourceProtocol \in ProtocolNames, targetProtocol \in ProtocolNames :
          last = [op |-> "request",
                  args |-> [identity |-> identity,
                            sourceProtocol |-> sourceProtocol,
                            targetProtocol |-> targetProtocol],
                  ret |-> NoPayload, err |-> ""]
    /\ nOps = 0
    /\ calls = <<>>
    /\ versions = <<>>
    /\ registry = EmptyRegistry
    /\ wallet = EmptyWallet

TranslateProtocol ==
    /\ last.op = "request"
    /\ \E issued \in BOOLEAN :
          Run("translateProtocol", last.args,
              [store |-> store,
               ret |-> translateProtocol(last.args.identity,
                                         last.args.sourceProtocol,
                                         last.args.targetProtocol, issued),
               err |-> ""])

NextProtocols == TranslateProtocol

SpecProtocols == InitProtocols /\ [][NextProtocols]_vars

\* C27: translateProtocol returns a translation result only for the pairs
\* (saml,did), (oidc,did), (did,saml), (did,oidc); for every other pair,
\* source equal to target included, it returns translated = false, no result,
\* and an error that names the unsupported source and target; a presentation
\* holding a credential is translated for (did,saml) and (did,oidc).
C27_TranslatesExactlyFourPairs ==
    last.op = "translateProtocol"
    => LET pair == <<last.args.sourceProtocol, last.args.targetProtocol>>
       IN /\ last.ret.translated
             => pair \in TranslatedPairs /\ HasKey(last.ret, "result")
          /\ pair \notin TranslatedPairs
             => /\ ~last.ret.translated
                /\ ~HasKey(last.ret, "result")
                /\ last.ret.error
                     = [message |-> "Unsupported translation",
                        from |-> pair[1], to |-> pair[2]]
          /\ (/\ pair \in {<<"did", "saml">>, <<"did", "oidc">>}
              /\ HasKey(last.args.identity, "verifiableCredential")
              /\ Len(last.args.identity.verifiableCredential) > 0)
             => last.ret.translated

\* A well-formed SAML assertion asked to be translated to SAML is refused
\* with the error naming the pair.
C27_Witness ==
    /\ last.op = "translateProtocol"
    /\ last.args.sourceProtocol = "saml"
    /\ last.args.targetProtocol = "saml"
    /\ HasKey(last.args.identity, "Issuer")
    /\ ~last.ret.translated
    /\ last.ret.error.from = "saml"
    /\ last.ret.error.to = "saml"
(***************************************************************************)
(* Protocol Translator: identity to credential and back                    *)
(***************************************************************************)
\* toVerifiableCredential(identity, did); issuerDid is
\* config.didRegistry.issuerDid.
toVerifiableCredential(identity, did, issuerDid) ==
    IF identity = NoPayload \/ did = NoDid
    THEN Raise("Failed to create verifiable credential")
    ELSE Return([type |-> <<"VerifiableCredential", "IdentityCredential">>,
                 issuer |-> IF issuerDid # NoDid THEN issuerDid
                            ELSE "did:example:issuer",
                 credentialSubject |->
                     [id |-> did,
                      email |-> identity.email,
                      name |-> identity.displayName,
                      firstName |-> identity.firstName,
                      lastName |-> identity.lastName,
                      roles |-> identity.roles]])

\* Normalized identities: every combination of a set or empty email, first
\* name, last name, display name and role list.
NormalizedIdentities ==
    [id : {"u1"}, authProtocol : {"saml"},
     email : {NoEmail, <<"a", "b.com">>},
     firstName : {"", "Ada"},
     lastName : {"", "Byron"},
     displayName : {"", "Ada Byron", "AB"},
     roles : {<<>>, <<"admin">>, <<"admin", "user">>}]

InitIdentities ==
    /\ store = <<>>
    /\ prev = <<>>
    /\ \E identity \in NormalizedIdentities, did \in Dids :
          last = [op |-> "identity",
                  args |-> [identity |-> identity, did |-> did],
                  ret |-> NoPayload, err |-> ""]
    /\ nOps = 0
    /\ calls = <<>>
    /\ versions = <<>>
    /\ registry = EmptyRegistry
    /\ wallet = EmptyWallet

\* The identity is turned into a credential.
ToVerifiableCredential ==
    /\ last.op = "identity"
    /\ \E issuerDid \in IssuerDids :
          LET out == toVerifiableCredential(last.args.identity, last.args.did,
                                            issuerDid)
          IN Run("toVerifiableCredential", last.args,
                 [store |-> store, ret |-> out.ret, err |-> out.err])

\* The credential is read back into an identity.
ExtractBack ==
    /\ last.op = "toVerifiableCredential"
    /\ last.err = ""
    /\ LET out == extractFromVerifiableCredential(last.ret)
       IN Run("roundTrip", last.args,
              [store |-> store, ret |-> out.ret, err |-> out.err])

NextIdentities == ToVerifiableCredential \/ ExtractBack

SpecIdentities == InitIdentities /\ [][NextIdentities]_vars

\* C28: the identity extracted from the credential that
\* toVerifiableCredential made of an identity has that identity's email,
\* displayName and roles, also for an empty displayName and an empty role list.
C28_CredentialRoundTrip ==
    last.op = "roundTrip"
    => /\ last.err = ""
       /\ last.ret.email = last.args.identity.email
       /\ last.ret.displayName = last.args.identity.displayName
       /\ last.ret.roles = last.args.identity.roles

(***************************************************************************)
(* Email and password login (server/src/routes/auth.js)                    *)
(***************************************************************************)
\* bcrypt.hash(password, 10)
Hash(password) == <<"$2b$10", password>>

Passwords == {"", "pw-1", "pw-2"}

Response(status, body) == [status |-> status, body |-> body]

\* POST /api/auth/email. bcrypt.compare rejects when the hash is undefined,
\* which the route's catch answers with 500.
emailLogin(s, email, password) ==
    IF email = NoEmail \/ password = ""
    THEN Response(400, [error |-> "Email and password are required"])
    ELSE LET mapping == findByEmail(s, email)
         IN IF mapping = NoMapping
            THEN Response(401, [error |-> "Invalid email or password"])
            ELSE IF ~HasKey(mapping, "password")
                 THEN Response(500, [error |-> "Internal server error"])
            ELSE IF mapping.password # Hash(password)
                 THEN Response(401, [error |-> "Invalid email or password"])
            ELSE Response(200,
                          [token |-> [sub |-> mapping.traditionalId,
                                      email |-> mapping.email,
                                      did |-> mapping.did,
                                      auth_provider |-> "email",
                                      migration_phase |-> mapping.migrationPhase,
                                      wallet_connected |-> mapping.walletConnected],
                           user |-> [id |-> mapping.traditionalId,
                                     email |-> mapping.email,
                                     migrationPhase |-> mapping.migrationPhase,
                                     hasDid |-> mapping.did # NoDid,
                                     walletConnected |-> mapping.walletConnected]])

\* An account registered through POST /api/auth/email/register: the mapping
\* createMapping stores, with the password hash.
Registered(email, traditionalId, password) ==
    Spread(IdentityMapping([traditionalId |-> traditionalId,
                            provider |-> <<"email">>, email |-> email]),
           [password |-> Hash(password)])

\* The collections a login runs against: no account, a registered account,
\* an account created by a SAML login (no password), both.
LoginStores ==
    LET registered == Registered(<<"a", "b.com">>, "a@b.com", "pw-1")
        federated == IdentityMapping([traditionalId |-> "u1",
                                      provider |-> <<"saml">>,
                                      email |-> <<"c", "d.com">>])
    IN {<<>>, <<registered>>, <<federated>>, <<registered, federated>>}

LoginEmails == IdentityEmails \cup {NoEmail, <<"e", "f.com">>}

InitEmailLogin ==
    /\ store \in LoginStores
    /\ prev = store
    /\ last = [op |-> "none", args |-> <<>>, ret |-> NoMapping, err |-> ""]
    /\ nOps = 0
    /\ calls = <<>>
    /\ versions = <<>>
    /\ registry = EmptyRegistry
    /\ wallet = EmptyWallet

EmailLogin ==
    \E email \in LoginEmails, password \in Passwords :
        Run("emailLogin", [email |-> email, password |-> password],
            [store |-> store, ret |-> emailLogin(store, email, password),
             err |-> ""])

NextEmailLogin == EmailLogin

SpecEmailLogin == InitEmailLogin /\ [][NextEmailLogin]_vars

\* C29: every email and password login that fails gets the same response,
\* 401 with the body "Invalid email or password", whether the email has no
\* mapping, its mapping's password hash does not match, or its mapping has no
\* password hash.
C29_LoginFailuresIndistinguishable ==
    (/\ last.op = "emailLogin"
     /\ last.args.email # NoEmail
     /\ last.args.password # ""
     /\ last.ret.status # 200)
    => last.ret = Response(401, [error |-> "Invalid email or password"])

(***************************************************************************)
(* DID registry (Move module did_registry)                                 *)
(***************************************************************************)
\* Error codes.
ENotAuthorized == 0
EDIDAlreadyExists == 1
EDIDNotFound == 2
EDIDRevoked == 3
EIndexOutOfBounds == 4

\* The outcome of a transaction: the registry afterwards, the value returned
\* and the abort code (<<>> when it did not abort, <<code>> when it did). An
\* aborted transaction leaves the registry as it was.
Commit(reg, ret) == [registry |-> reg, ret |-> ret, abort |-> <<>>]
Abort(reg, code) == [registry |-> reg, ret |-> NoPayload, abort |-> <<code>>]

\* table::contains(&registry.dids, did_id)
Contains(reg, did_id) == did_id \in DOMAIN reg.dids

\* table::add(&mut registry.dids, did_id, record)
TableAdd(dids, did_id, record) ==
    [key \in DOMAIN dids \cup {did_id} |->
        IF key = did_id THEN record ELSE dids[key]]

\* register_did without the uniqueness assertion: table::add on a key that is
\* present replaces the record here.
register_did_NoUniquenessCheck(reg, did_id, document, sender) ==
    Commit([dids |-> TableAdd(reg.dids, did_id,
                              [did_id |-> did_id, controller |-> sender,
                               document |-> document, revoked |-> FALSE]),
            all_dids |-> Append(reg.all_dids, did_id)],
           NoPayload)

\* register_did that puts the new DID at the front of the listing vector.
register_did_PushFront(reg, did_id, document, sender) ==
    IF Contains(reg, did_id) THEN Abort(reg, EDIDAlreadyExists)
    ELSE Commit([dids |-> TableAdd(reg.dids, did_id,
                                   [did_id |-> did_id, controller |-> sender,
                                    document |-> document, revoked |-> FALSE]),
                 all_dids |-> <<did_id>> \o reg.all_dids],
                NoPayload)

register_did(reg, did_id, document, sender) ==
    IF Contains(reg, did_id) THEN Abort(reg, EDIDAlreadyExists)
    ELSE Commit([dids |-> TableAdd(reg.dids, did_id,
                                   [did_id |-> did_id, controller |-> sender,
                                    document |-> document, revoked |-> FALSE]),
                 all_dids |-> Append(reg.all_dids, did_id)],
                NoPayload)

resolve_did(reg, did_id) ==
    IF ~Contains(reg, did_id) THEN Abort(reg, EDIDNotFound)
    ELSE IF reg.dids[did_id].revoked THEN Abort(reg, EDIDRevoked)
    ELSE Commit(reg, reg.dids[did_id].document)

\* update_did without the sender assertion.
update_did_NoSenderCheck(reg, did_id, new_document, sender) ==
    IF ~Contains(reg, did_id) THEN Abort(reg, EDIDNotFound)
    ELSE IF reg.dids[did_id].revoked THEN Abort(reg, EDIDRevoked)
    ELSE Commit([reg EXCEPT !.dids[did_id].document = new_document], NoPayload)

\* update_did without the revocation assertion.
update_did_NoRevokedCheck(reg, did_id, new_document, sender) ==
    IF ~Contains(reg, did_id) THEN Abort(reg, EDIDNotFound)
    ELSE IF sender # reg.dids[did_id].controller THEN Abort(reg, ENotAuthorized)
    ELSE Commit([reg EXCEPT !.dids[did_id].document = new_document], NoPayload)

\* update_did that passes every assertion and writes nothing.
update_did_WritesNothing(reg, did_id, new_document, sender) ==
    IF ~Contains(reg, did_id) THEN Abort(reg, EDIDNotFound)
    ELSE IF sender # reg.dids[did_id].controller THEN Abort(reg, ENotAuthorized)
    ELSE IF reg.dids[did_id].revoked THEN Abort(reg, EDIDRevoked)
    ELSE Commit(reg, NoPayload)

update_did(reg, did_id, new_document, sender) ==
    IF ~Contains(reg, did_id) THEN Abort(reg, EDIDNotFound)
    ELSE IF sender # reg.dids[did_id].controller THEN Abort(reg, ENotAuthorized)
    ELSE IF reg.dids[did_id].revoked THEN Abort(reg, EDIDRevoked)
    ELSE Commit([reg EXCEPT !.dids[did_id].document = new_document], NoPayload)

revoke_did(reg, did_id, sender) ==
    IF ~Contains(reg, did_id) THEN Abort(reg, EDIDNotFound)
    ELSE IF sender # reg.dids[did_id].controller THEN Abort(reg, ENotAuthorized)
    ELSE IF reg.dids[did_id].revoked THEN Abort(reg, EDIDRevoked)
    ELSE Commit([reg EXCEPT !.dids[did_id].revoked = TRUE], NoPayload)

\* Helpers that read the registry.
is_revoked(reg, did_id) ==
    IF ~Contains(reg, did_id) THEN Abort(reg, EDIDNotFound)
    ELSE Commit(reg, reg.dids[did_id].revoked)

get_did_count(reg) == Commit(reg, Len(reg.all_dids))

\* Vector indexes start at 0, sequence indexes at 1.
get_did_at_index(reg, index) ==
    IF ~(index < Len(reg.all_dids)) THEN Abort(reg, EIndexOutOfBounds)
    ELSE Commit(reg, reg.all_dids[index + 1])

get_did_info_at_index(reg, index) ==
    IF ~(index < Len(reg.all_dids)) THEN Abort(reg, EIndexOutOfBounds)
    ELSE Commit(reg, <<reg.dids[reg.all_dids[index + 1]].controller,
                       reg.dids[reg.all_dids[index + 1]].revoked>>)

\* Transaction inputs: DID strings, serialized documents, sender addresses,
\* listing indexes.
MaxIndex == 2

Indexes == 0..MaxIndex

DidIds == {"did:sui:1", "did:sui:2"}

Documents == {"doc-1", "doc-2"}

Addresses == {"0xA", "0xB"}

InitRegistry ==
    /\ store = <<>>
    /\ prev = <<>>
    /\ last = [op |-> "none", args |-> <<>>, ret |-> NoPayload, abort |-> <<>>,
               before |-> EmptyRegistry, written |-> <<>>, registered |-> <<>>,
               revoked |-> {}, revokedBefore |-> {}]
    /\ nOps = 0
    /\ calls = <<>>
    /\ versions = <<>>
    /\ registry = EmptyRegistry
    /\ wallet = EmptyWallet

\* The transaction log, kept from what each transaction was asked and whether
\* it aborted, never from the registry: the document last written for each DID
\* by a register_did or update_did that did not abort, the DIDs in the order
\* their register_did went through, and the DIDs whose revoke_did went through.
LogWritten(op, args, outcome) ==
    IF op \in {"register_did", "update_did"} /\ outcome.abort = <<>>
    THEN [d \in DOMAIN last.written \cup {args.did_id} |->
             IF d = args.did_id THEN args.document ELSE last.written[d]]
    ELSE last.written

LogRegistered(op, args, outcome) ==
    IF op = "register_did" /\ outcome.abort = <<>>
    THEN Append(last.registered, args.did_id)
    ELSE last.registered

LogRevoked(op, args, outcome) ==
    IF op = "revoke_did" /\ outcome.abort = <<>>
    THEN last.revoked \cup {args.did_id}
    ELSE last.revoked

\* One transaction on the shared registry; before keeps the registry it ran on
\* and revokedBefore the revocations logged before it.
Transact(op, args, outcome) ==
    /\ nOps < MaxOps
    /\ registry' = outcome.registry
    /\ last' = [op |-> op, args |-> args, ret |-> outcome.ret,
                abort |-> outcome.abort, before |-> registry,
                written |-> LogWritten(op, args, outcome),
                registered |-> LogRegistered(op, args, outcome),
                revoked |-> LogRevoked(op, args, outcome),
                revokedBefore |-> last.revoked]
    /\ nOps' = nOps + 1
    /\ UNCHANGED <<store, prev, calls, versions, wallet>>

RegisterDid ==
    \E did_id \in DidIds, document \in Documents, sender \in Addresses :
        Transact("register_did",
                 [did_id |-> did_id, document |-> document, sender |-> sender],
                 register_did(registry, did_id, document, sender))

ResolveDid ==
    \E did_id \in DidIds :
        Transact("resolve_did", [did_id |-> did_id],
                 resolve_did(registry, did_id))

UpdateDid ==
    \E did_id \in DidIds, document \in Documents, sender \in Addresses :
        Transact("update_did",
                 [did_id |-> did_id, document |-> document, sender |-> sender],
                 update_did(registry, did_id, document, sender))

RevokeDid ==
    \E did_id \in DidIds, sender \in Addresses :
        Transact("revoke_did", [did_id |-> did_id, sender |-> sender],
                 revoke_did(registry, did_id, sender))

IsRevoked ==
    \E did_id \in DidIds :
        Transact("is_revoked", [did_id |-> did_id],
                 is_revoked(registry, did_id))

GetDidCount == Transact("get_did_count", <<>>, get_did_count(registry))

GetDidAtIndex ==
    \E index \in Indexes :
        Transact("get_did_at_index", [index |-> index],
                 get_did_at_index(registry, index))

GetDidInfoAtIndex ==
    \E index \in Indexes :
        Transact("get_did_info_at_index", [index |-> index],
                 get_did_info_at_index(registry, index))

NextRegistry ==
    \/ RegisterDid
    \/ ResolveDid
    \/ UpdateDid
    \/ RevokeDid
    \/ IsRevoked
    \/ GetDidCount
    \/ GetDidAtIndex
    \/ GetDidInfoAtIndex

SpecRegistry == InitRegistry /\ [][NextRegistry]_vars

\* C30: register_did for a did_id that is already registered aborts with
\* EDIDAlreadyExists and leaves the registry as it was (the record's
\* controller, document and revoked flag, and the number of listed DIDs),
\* also when the registered DID is revoked.
C30_DuplicateRegistrationAborts ==
    (last.op = "register_did" /\ last.args.did_id \in DOMAIN last.before.dids)
    => /\ last.abort = <<EDIDAlreadyExists>>
       /\ registry = last.before
       /\ registry.dids[last.args.did_id] = last.before.dids[last.args.did_id]
       /\ Len(registry.all_dids) = Len(last.before.all_dids)

\* A DID that was registered and then revoked is registered again, by another
\* sender with another document, and the transaction aborts.
C30_Witness ==
    /\ last.op = "register_did"
    /\ last.args.did_id \in DOMAIN last.before.dids
    /\ last.before.dids[last.args.did_id].revoked
    /\ last.args.sender # last.before.dids[last.args.did_id].controller
    /\ last.args.document # last.before.dids[last.args.did_id].document
    /\ last.abort = <<EDIDAlreadyExists>>
    /\ registry.dids[last.args.did_id].revoked

\* The transactions that change a record.
Mutations == {"update_did", "revoke_did"}

\* C31: update_did and revoke_did succeed only when the sender is the address
\* that registered the DID; on a registered DID a call by any other address
\* aborts with ENotAuthorized and leaves the record's document and revoked
\* flag as they were; register_did makes the sender the controller and no
\* transaction changes a record's controller afterwards.
C31_OnlyControllerMutates ==
    /\ (last.op \in Mutations /\ last.abort = <<>>)
       => /\ last.args.did_id \in DOMAIN last.before.dids
          /\ last.args.sender = last.before.dids[last.args.did_id].controller
    /\ (/\ last.op \in Mutations
        /\ last.args.did_id \in DOMAIN last.before.dids
        /\ last.args.sender # last.before.dids[last.args.did_id].controller)
       => /\ last.abort = <<ENotAuthorized>>
          /\ registry.dids[last.args.did_id].document
                 = last.before.dids[last.args.did_id].document
          /\ registry.dids[last.args.did_id].revoked
                 = last.before.dids[last.args.did_id].revoked
    /\ (last.op = "register_did" /\ last.abort = <<>>)
       => registry.dids[last.args.did_id].controller = last.args.sender
    /\ \A did_id \in DOMAIN last.before.dids :
          /\ did_id \in DOMAIN registry.dids
          /\ registry.dids[did_id].controller
                 = last.before.dids[did_id].controller

\* An address that did not register the DID asks for another document and is
\* refused.
C31_Witness ==
    /\ last.op = "update_did"
    /\ last.args.did_id \in DOMAIN last.before.dids
    /\ last.args.sender # last.before.dids[last.args.did_id].controller
    /\ last.args.document # last.before.dids[last.args.did_id].document
    /\ ~last.before.dids[last.args.did_id].revoked
    /\ last.abort = <<ENotAuthorized>>

\* C32: revocation is permanent. For a DID whose revoke_did went through,
\* is_revoked returns true in every later state; a later resolve_did on it
\* aborts with EDIDRevoked, a later update_did or revoke_did on it aborts, and
\* no later transaction changes its document.
C32_RevocationIsPermanent ==
    /\ \A did_id \in last.revoked :
          is_revoked(registry, did_id) = Commit(registry, TRUE)
    /\ \A did_id \in last.revokedBefore :
          /\ registry.dids[did_id].document = last.before.dids[did_id].document
          /\ (last.op = "resolve_did" /\ last.args.did_id = did_id)
             => last.abort = <<EDIDRevoked>>
          /\ (last.op \in Mutations /\ last.args.did_id = did_id)
             => last.abort \in {<<ENotAuthorized>>, <<EDIDRevoked>>}

\* The controller of a revoked DID asks for another document and is refused.
C32_Witness ==
    /\ last.op = "update_did"
    /\ last.args.did_id \in last.revokedBefore
    /\ last.args.sender = last.before.dids[last.args.did_id].controller
    /\ last.args.document # last.before.dids[last.args.did_id].document
    /\ last.abort = <<EDIDRevoked>>

\* C33: for a registered DID that is not revoked, resolve_did returns the
\* document written by the most recent register_did or update_did on it that
\* went through; resolve_did, update_did and revoke_did on a DID that was never
\* registered abort with EDIDNotFound and leave the registry as it was.
C33_ResolveReturnsLastWritten ==
    /\ \A did_id \in Range(last.registered) \ last.revoked :
          resolve_did(registry, did_id) = Commit(registry, last.written[did_id])
    /\ (/\ last.op = "resolve_did"
        /\ last.args.did_id \in Range(last.registered) \ last.revoked)
       => /\ last.abort = <<>>
          /\ last.ret = last.written[last.args.did_id]
    /\ (/\ last.op \in Mutations \cup {"resolve_did"}
        /\ last.args.did_id \notin Range(last.registered))
       => /\ last.abort = <<EDIDNotFound>>
          /\ registry = last.before

\* A DID is registered with one document, updated to another, and the second
\* document is the one it resolves to.
C33_Witness ==
    /\ last.op = "update_did"
    /\ last.abort = <<>>
    /\ last.args.document # last.before.dids[last.args.did_id].document
    /\ resolve_did(registry, last.args.did_id).ret = last.args.document

\* C34: the listing vector holds exactly the registered DIDs, each once, in
\* registration order: get_did_count is the number of register_did calls that
\* went through, get_did_at_index(i) is the i-th registered DID and
\* get_did_info_at_index(i) its controller and current revoked flag for every
\* i below the count, and an index at or above the count aborts with
\* EIndexOutOfBounds.
C34_ListingIsRegistrationOrder ==
    /\ registry.all_dids = last.registered
    /\ Range(registry.all_dids) = DOMAIN registry.dids
    /\ \A i, j \in 1..Len(registry.all_dids) :
          registry.all_dids[i] = registry.all_dids[j] => i = j
    /\ get_did_count(registry) = Commit(registry, Len(last.registered))
    /\ \A index \in Indexes :
          IF index < Len(last.registered)
          THEN /\ get_did_at_index(registry, index)
                      = Commit(registry, last.registered[index + 1])
               /\ get_did_info_at_index(registry, index)
                      = Commit(registry,
                               <<registry.dids[last.registered[index + 1]].controller,
                                 last.registered[index + 1] \in last.revoked>>)
          ELSE /\ get_did_at_index(registry, index)
                      = Abort(registry, EIndexOutOfBounds)
               /\ get_did_info_at_index(registry, index)
                      = Abort(registry, EIndexOutOfBounds)
    /\ (last.op = "get_did_at_index" /\ last.args.index >= Len(last.registered))
       => last.abort = <<EIndexOutOfBounds>>

\* Two DIDs are registered and the second one is read at index 1.
C34_Witness ==
    /\ last.op = "get_did_at_index"
    /\ last.args.index = 1
    /\ Len(last.registered) = 2
    /\ last.abort = <<>>
    /\ last.ret = last.registered[2]
    /\ last.ret # last.registered[1]

\* The statuses of a wallet connection that has been established.
Established == {"active", "completed"}

\* C35: a mapping with walletConnected = true and walletConnectionId = c has a
\* wallet connection record c whose status is active or completed; while a
\* connection is still invited no mapping is walletConnected with it or in
\* phase hybrid with it.
C35_WalletConnectedMeansEstablished ==
    \A i \in 1..Len(store) :
        /\ (store[i].walletConnected /\ store[i].walletConnectionId # NoConnection)
           => /\ store[i].walletConnectionId \in DOMAIN wallet.connections
              /\ wallet.connections[store[i].walletConnectionId].status
                     \in Established
        /\ (/\ store[i].walletConnectionId \in DOMAIN wallet.connections
            /\ wallet.connections[store[i].walletConnectionId].status = "invited")
           => /\ ~store[i].walletConnected
              /\ store[i].migrationPhase # "hybrid"

Answer(w, ret) == [wallet |-> w, ret |-> ret, err |-> ""]

Reject(w, err) == [wallet |-> w, ret |-> NoPayload, err |-> err]

\* Map.set(key, value)
MapSet(map, key, value) ==
    [k \in DOMAIN map \cup {key} |-> IF k = key THEN value ELSE map[k]]

\* setTimeout(() => callback(id, credentialTypes), 3000)
SetTimeout(timers, callback, id, credentialTypes) ==
    timers \cup {[callback |-> callback, id |-> id,
                  credentialTypes |-> credentialTypes]}

\* WalletConnector.offerCredential(connectionId, credential). credentialOfferId
\* is the uuid drawn; externalId is response.data.id of the external wallet
\* service ("" when it has no API key to be asked with, fails or sends no id).
\* The credential itself is only cached and is left out.
offerCredential(w, connectionId, credentialOfferId, externalId) ==
    IF w.apiKey /\ externalId # ""
    THEN Answer([w EXCEPT !.credentialOffers =
                     MapSet(@, externalId,
                            [id |-> externalId, connectionId |-> connectionId,
                             status |-> "offered"])],
                [id |-> externalId, connectionId |-> connectionId,
                 status |-> "offered"])
    ELSE Answer([w EXCEPT !.credentialOffers =
                     MapSet(@, credentialOfferId,
                            [id |-> credentialOfferId,
                             connectionId |-> connectionId,
                             status |-> "offered"]),
                          !.timers =
                     SetTimeout(@, "_simulateCredentialAccepted",
                                credentialOfferId, <<>>)],
                [id |-> credentialOfferId, connectionId |-> connectionId,
                 status |-> "offered"])

\* WalletConnector.checkCredentialOfferStatus(credentialOfferId). state is
\* response.data.state of the external service ("" when there is no reply).
checkCredentialOfferStatus(w, credentialOfferId, state) ==
    IF w.apiKey /\ state # ""
    THEN Answer(IF credentialOfferId \in DOMAIN w.credentialOffers
                THEN [w EXCEPT !.credentialOffers[credentialOfferId].status = state]
                ELSE w,
                [id |-> credentialOfferId, status |-> state])
    ELSE IF credentialOfferId \in DOMAIN w.credentialOffers
         THEN Answer(w, [id |-> credentialOfferId,
                         connectionId |->
                             w.credentialOffers[credentialOfferId].connectionId,
                         status |-> w.credentialOffers[credentialOfferId].status])
    ELSE Reject(w, "Failed to check credential offer status")

\* WalletConnector.requestPresentation(connectionId, credentialTypes). A
\* cached request has no presentation property yet: presentation is NoPayload.
requestPresentation(w, connectionId, credentialTypes, presentationRequestId, externalId) ==
    IF w.apiKey /\ externalId # ""
    THEN Answer([w EXCEPT !.presentationRequests =
                     MapSet(@, externalId,
                            [id |-> externalId, connectionId |-> connectionId,
                             credentialTypes |-> credentialTypes,
                             status |-> "requested",
                             presentation |-> NoPayload])],
                [id |-> externalId, connectionId |-> connectionId,
                 status |-> "requested"])
    ELSE Answer([w EXCEPT !.presentationRequests =
                     MapSet(@, presentationRequestId,
                            [id |-> presentationRequestId,
                             connectionId |-> connectionId,
                             credentialTypes |-> credentialTypes,
                             status |-> "requested",
                             presentation |-> NoPayload]),
                          !.timers =
                     SetTimeout(@, "_simulatePresentationSubmitted",
                                presentationRequestId, credentialTypes)],
                [id |-> presentationRequestId, connectionId |-> connectionId,
                 status |-> "requested"])

\* WalletConnector.checkPresentationRequestStatus(presentationRequestId).
\* state and presentation are response.data.state and
\* response.data.presentation of the external service (state "" when there is
\* no reply, presentation NoPayload when the reply has none).
checkPresentationRequestStatus(w, presentationRequestId, state, presentation) ==
    IF w.apiKey /\ state # ""
    THEN Answer(IF presentationRequestId \in DOMAIN w.presentationRequests
                THEN [w EXCEPT !.presentationRequests[presentationRequestId] =
                         [@ EXCEPT !.status = state,
                                   !.presentation =
                                       IF presentation # NoPayload
                                       THEN presentation ELSE @]]
                ELSE w,
                [id |-> presentationRequestId, status |-> state,
                 presentation |-> presentation])
    ELSE IF presentationRequestId \in DOMAIN w.presentationRequests
         THEN Answer(w, [id |-> presentationRequestId,
                         connectionId |->
                             w.presentationRequests[presentationRequestId].connectionId,
                         status |->
                             w.presentationRequests[presentationRequestId].status,
                         presentation |->
                             w.presentationRequests[presentationRequestId].presentation])
    ELSE Reject(w, "Failed to check presentation request status")

\* WalletConnector._simulateCredentialAccepted(credentialOfferId)
SimulateCredentialAccepted(w, credentialOfferId) ==
    IF credentialOfferId \in DOMAIN w.credentialOffers
    THEN [w EXCEPT !.credentialOffers[credentialOfferId].status = "accepted"]
    ELSE w

\* The mock presentation: one credential of the example issuer per requested
\* type (the uuids and dates in it are left out).
MockPresentation(credentialTypes) ==
    [type |-> <<"VerifiablePresentation">>,
     verifiableCredential |->
         [i \in 1..Len(credentialTypes) |->
             [type |-> <<"VerifiableCredential", credentialTypes[i]>>,
              issuer |-> "did:example:issuer"]]]

\* _simulatePresentationSubmitted that sets the status and leaves the
\* presentation out.
SimulatePresentationSubmitted_NoPresentation(w, presentationRequestId, credentialTypes) ==
    IF presentationRequestId \in DOMAIN w.presentationRequests
    THEN [w EXCEPT !.presentationRequests[presentationRequestId].status =
                       "verified"]
    ELSE w

\* WalletConnector._simulatePresentationSubmitted(presentationRequestId,
\* credentialTypes)
SimulatePresentationSubmitted(w, presentationRequestId, credentialTypes) ==
    IF presentationRequestId \in DOMAIN w.presentationRequests
    THEN [w EXCEPT !.presentationRequests[presentationRequestId] =
             [@ EXCEPT !.status = "verified",
                       !.presentation = MockPresentation(credentialTypes)]]
    ELSE w

\* The uuids the connector can draw for offers and for requests, the ids and
\* states the external wallet service can answer with ("" for no answer), the
\* credential types asked for.
OfferIds == {"offer-1", "offer-2"}

RequestIds == {"request-1", "request-2"}

ExternalIds == {"", "ext-1"}

ExternalStates == {"", "abandoned"}

RequestedTypes == {<<"IdentityCredential">>}

InitWallet ==
    /\ store = <<>>
    /\ prev = <<>>
    /\ last = [op |-> "none", args |-> <<>>, ret |-> NoPayload, err |-> ""]
    /\ nOps = 0
    /\ calls = <<>>
    /\ versions = <<>>
    /\ registry = EmptyRegistry
    /\ \E apiKey \in BOOLEAN : wallet = [EmptyWallet EXCEPT !.apiKey = apiKey]

\* One call on the connector.
Call(op, args, outcome) ==
    /\ nOps < MaxOps
    /\ wallet' = outcome.wallet
    /\ last' = [op |-> op, args |-> args, ret |-> outcome.ret,
                err |-> outcome.err]
    /\ nOps' = nOps + 1
    /\ UNCHANGED <<store, prev, calls, versions, registry>>

\* POST /api/wallet/credentials/offer: the uuid drawn is a new one.
OfferCredential ==
    \E connectionId \in ConnectionIds,
       credentialOfferId \in OfferIds \ DOMAIN wallet.credentialOffers,
       externalId \in ExternalIds :
        Call("offerCredential", [connectionId |-> connectionId],
             offerCredential(wallet, connectionId, credentialOfferId, externalId))

CheckCredentialOfferStatus ==
    \E credentialOfferId \in OfferIds \cup (ExternalIds \ {""}),
       state \in ExternalStates :
        Call("checkCredentialOfferStatus", [id |-> credentialOfferId],
             checkCredentialOfferStatus(wallet, credentialOfferId, state))

RequestPresentation ==
    \E connectionId \in ConnectionIds, credentialTypes \in RequestedTypes,
       presentationRequestId \in RequestIds \ DOMAIN wallet.presentationRequests,
       externalId \in ExternalIds :
        Call("requestPresentation", [connectionId |-> connectionId],
             requestPresentation(wallet, connectionId, credentialTypes,
                                 presentationRequestId, externalId))

CheckPresentationRequestStatus ==
    \E presentationRequestId \in RequestIds \cup (ExternalIds \ {""}),
       state \in ExternalStates,
       presentation \in {NoPayload, MockPresentation(<<>>)} :
        Call("checkPresentationRequestStatus", [id |-> presentationRequestId],
             checkPresentationRequestStatus(wallet, presentationRequestId,
                                            state, presentation))

\* A timer goes off and runs its callback; the calls are not counted.
Timeout ==
    \E timer \in wallet.timers :
        /\ wallet' =
               [(IF timer.callback = "_simulateCredentialAccepted"
                 THEN SimulateCredentialAccepted(wallet, timer.id)
                 ELSE SimulatePresentationSubmitted(wallet, timer.id,
                                                    timer.credentialTypes))
                EXCEPT !.timers = wallet.timers \ {timer}]
        /\ UNCHANGED <<store, prev, last, nOps, calls, versions, registry>>

NextWallet ==
    \/ OfferCredential
    \/ CheckCredentialOfferStatus
    \/ RequestPresentation
    \/ CheckPresentationRequestStatus
    \/ Timeout

SpecWallet == InitWallet /\ [][NextWallet]_vars

\* The event loop runs a timer's callback once its delay has passed.
SpecWalletFair == SpecWallet /\ WF_vars(Timeout)

\* The connector has no API key: every offer and request is simulated locally.
LocalSimulation == ~wallet.apiKey

\* The timer set for this id has not gone off yet.
Pending(callback, id) ==
    \E timer \in wallet.timers : timer.callback = callback /\ timer.id = id

\* What the calls return in the local simulation.
SimulatedAnswers ==
    LocalSimulation
    => /\ last.op = "offerCredential" => last.ret.status = "offered"
       /\ last.op = "requestPresentation" => last.ret.status = "requested"
       /\ (/\ last.op = "checkCredentialOfferStatus"
           /\ last.err = ""
           /\ Pending("_simulateCredentialAccepted", last.args.id))
          => last.ret.status = "offered"
       /\ (/\ last.op = "checkPresentationRequestStatus"
           /\ last.err = ""
           /\ Pending("_simulatePresentationSubmitted", last.args.id))
          => last.ret.status = "requested"
       /\ (last.op = "checkPresentationRequestStatus" /\ last.err = "")
          => (last.ret.presentation # NoPayload <=> last.ret.status = "verified")
       /\ \A id \in DOMAIN wallet.presentationRequests :
             wallet.presentationRequests[id].presentation # NoPayload
                 <=> wallet.presentationRequests[id].status = "verified"

\* A cached status changes only from before to after.
OnlyForward(cache, cacheAfter, before, after) ==
    \A id \in DOMAIN cache :
        /\ id \in DOMAIN cacheAfter
        /\ \/ cacheAfter[id].status = cache[id].status
           \/ cache[id].status = before /\ cacheAfter[id].status = after

SimulatedSteps ==
    LocalSimulation
    => /\ OnlyForward(wallet.credentialOffers, wallet'.credentialOffers,
                      "offered", "accepted")
       /\ OnlyForward(wallet.presentationRequests, wallet'.presentationRequests,
                      "requested", "verified")

\* C37: in the wallet connector's local simulation offerCredential returns
\* status offered and a status check made while the offer's timer has not gone
\* off reports offered; an offer's status only changes from offered to
\* accepted; with the timer's callback run by the event loop every offer is
\* eventually accepted. The same for requestPresentation with requested and
\* verified, and a status result carries the presentation exactly when its
\* status is verified.
C37_SimulatedOffersAreEventuallyAccepted ==
    /\ []SimulatedAnswers
    /\ [][SimulatedSteps]_vars
    /\ \A id \in OfferIds :
          (LocalSimulation /\ id \in DOMAIN wallet.credentialOffers)
              ~> (/\ id \in DOMAIN wallet.credentialOffers
                  /\ wallet.credentialOffers[id].status = "accepted")
    /\ \A id \in RequestIds :
          (LocalSimulation /\ id \in DOMAIN wallet.presentationRequests)
              ~> (/\ id \in DOMAIN wallet.presentationRequests
                  /\ wallet.presentationRequests[id].status = "verified")

\* A request's timer has gone off and the status check that follows reports
\* verified with the mock presentation.
C37_Witness ==
    /\ LocalSimulation
    /\ last.op = "checkPresentationRequestStatus"
    /\ last.err = ""
    /\ last.ret.status = "verified"
    /\ last.ret.presentation = MockPresentation(<<"IdentityCredential">>)
    /\ ~Pending("_simulatePresentationSubmitted", last.args.id)

\* C38: deleteMapping(id, P) returns true only when it removed the record or
\* removed at least one provider the mapping had before the call; when the
\* mapping has none of the providers of a non-empty P, it returns false and
\* the mapping's provider list is after the call what it was before.
C38_DeleteMappingReportsRemoval ==
    last.op = "deleteMapping"
    => LET id == last.args.id
           P == Range(normalizeProvider(last.args.provider))
       IN /\ last.ret = TRUE
             => /\ Exists(prev, id)
                /\ \/ ~Exists(store, id)
                   \/ \E p \in P :
                         /\ Includes(MappingOf(prev, id).provider, p)
                         /\ ~Includes(MappingOf(store, id).provider, p)
          /\ (/\ Exists(prev, id)
              /\ P # {}
              /\ P \cap Range(MappingOf(prev, id).provider) = {})
             => /\ last.ret = FALSE
                /\ Exists(store, id)
                /\ MappingOf(store, id).provider = MappingOf(prev, id).provider

\* C39: after any sequence of Correlator operations, updateMigrationPhase
\* with traditional, preparation or hybrid among them, a mapping whose
\* migrationPhase is preparation or hybrid has a DID, and a mapping whose
\* migrationPhase is hybrid has walletConnected = true.
C39_PhaseImpliesDidAndWallet ==
    \A i \in 1..Len(store) :
        /\ store[i].migrationPhase \in {"preparation", "hybrid"}
           => store[i].did # NoDid
        /\ store[i].migrationPhase = "hybrid" => store[i].walletConnected

====
